---- MODULE Spec2Model ----
(***************************************************************************)
(* Model of the review pipeline of the pull-request reviewer:              *)
(*   app/services/chunker.py       chunk_diff and its helpers              *)
(*   app/services/planner.py       plan_agents and its helpers             *)
(*   app/services/review_agent.py  _run_agent, _aggregate, review_diff     *)
(*   app/api/config_routes.py      get_config, set_config, reset_config    *)
(*   app/api/webhooks.py           github_webhook                          *)
(*   app/core/security.py          verify_github_signature                 *)
(*   app/services/repo_config.py   the stored per-repository configuration *)
(*   app/services/event_handler.py the event handlers and _run_review      *)
(*   app/services/github_client.py the comment requests                    *)
(*   app/services/audit_logger.py  get_last_reviewed_sha, log_review_run   *)
(*   app/mcp_server.py             review_pr and the configuration tools   *)
(*                                                                         *)
(* A diff is a sequence of tokens.  The chunker only ever looks for the    *)
(* literals "diff --git " and "@@", for the pattern                        *)
(* "diff --git a/(.+?) b/", for surrounding whitespace and for lengths, so *)
(* a token is one of                                                       *)
(*   git  the text "diff --git a/<p> b/"                                   *)
(*   lit  the text "diff --git " not followed by "a/<p> b/" on its line    *)
(*   at   the text "@@"                                                    *)
(*   txt  n characters that hold none of the above, not all of them        *)
(*        whitespace, the outer ones not whitespace at the diff's ends     *)
(*   ws   n whitespace characters                                          *)
(* File paths are real strings.                                            *)
(***************************************************************************)
EXTENDS Integers, Sequences, FiniteSets, TLC

VARIABLES
    files,      \* the file sections the diff was written from (unified-diff grammar)
    diff,       \* the diff text handed to chunk_diff / review_diff
    cfg,        \* review_diff's config argument
    pc,         \* position of the run
    chunks,     \* chunk_diff's return value
    tasks,      \* review_diff's task list
    resp,       \* the reviewer backend's answer to each task
    st,         \* per task: "waiting" | "inflight" | "done"
    results,    \* per task: _run_agent's return value, once done
    arrival,    \* task indexes in the order their calls completed
    all_results,\* _aggregate's first argument
    max_issues, \* _aggregate's max_issues argument
    final,      \* value returned by review_diff / _aggregate
    error,      \* exception that left the run, or "none"
    again,      \* _aggregate's return value when fed its own result
    issue_comments,  \* the pull request's conversation comments, oldest first
    inline_comments, \* the pull request's review (inline) comments, oldest first
    review_runs,     \* the review_runs collection, in insertion order
    repo_config,     \* what get_repo_config returns for the repository
    run,             \* the locals and the position of the handler that runs
    nruns,           \* triggers received so far
    secret,          \* the environment's GITHUB_WEBHOOK_SECRET ("" when not set)
    request,         \* the last request POSTed to /webhooks/github
    response,        \* the answer to the last request or tool call
    config_docs,     \* the repo_configs collection: repository -> document
    config_call,     \* the last call of a configuration route or tool, with its answer
    upserting        \* per concurrent run: its position in the publication calls

\* the state of the HTTP and MCP surfaces and of concurrent handlers
surface == <<secret, request, response, config_docs, config_call, upserting>>

\* the state outside review_diff
outside == <<again, issue_comments, inline_comments, review_runs, repo_config,
            run, nruns, surface>>

vars == <<files, diff, cfg, pc, chunks, tasks, resp, st, results, arrival,
          all_results, max_issues, final, error, again,
          issue_comments, inline_comments, review_runs, repo_config, run, nruns,
          secret, request, response, config_docs, config_call, upserting>>

----------------------------------------------------------------------------
(* Generic helpers over sequences and strings *)

RECURSIVE SumSeq(_)
SumSeq(s) == IF s = <<>> THEN 0 ELSE Head(s) + SumSeq(Tail(s))

RECURSIVE Flatten(_)
Flatten(ss) == IF ss = <<>> THEN <<>> ELSE Head(ss) \o Flatten(Tail(ss))

RECURSIVE SelectIdx(_, _, _)
\* the indexes i of s, ascending, with Test(s[i])
SelectIdx(s, Test(_), i) ==
    IF i > Len(s) THEN <<>>
    ELSE (IF Test(s[i]) THEN <<i>> ELSE <<>>) \o SelectIdx(s, Test, i + 1)

SeqsUpTo(S, n) == UNION {[1..k -> S] : k \in 0..n}

\* Python: t in s
Contains(s, t) ==
    \E i \in 1..(Len(s) - Len(t) + 1) : SubSeq(s, i, i + Len(t) - 1) = t

\* Python: re.search(t + "$", s) for a literal t, and s holding no newline
EndsWith(s, t) ==
    Len(s) >= Len(t) /\ SubSeq(s, Len(s) - Len(t) + 1, Len(s)) = t

----------------------------------------------------------------------------
(* Diff text as tokens *)

Git(p)  == [k |-> "git", p |-> p, n |-> 16 + Len(p)]
Lit     == [k |-> "lit", p |-> "", n |-> 11]
At      == [k |-> "at",  p |-> "", n |-> 2]
Txt(n)  == [k |-> "txt", p |-> "", n |-> n]
Ws(n)   == [k |-> "ws",  p |-> "", n |-> n]

\* Python: len(text)
TextLen(text) == SumSeq([i \in 1..Len(text) |-> text[i].n])

RECURSIVE LStrip(_)
LStrip(text) ==
    IF text # <<>> /\ Head(text).k = "ws" THEN LStrip(Tail(text)) ELSE text

RECURSIVE RStrip(_)
RStrip(text) ==
    IF text # <<>> /\ text[Len(text)].k = "ws"
    THEN RStrip(SubSeq(text, 1, Len(text) - 1)) ELSE text

\* Python: text.strip()
Strip(text) == RStrip(LStrip(text))

RECURSIVE SplitBefore(_, _, _)
\* Python: re.split(r"(?=<marker>)", text): the text is cut before every
\* token whose kind is in kinds; a cut at position 0 leaves an empty first
\* piece.  cur is the piece being collected.
SplitBefore(text, kinds, cur) ==
    IF text = <<>> THEN <<cur>>
    ELSE IF Head(text).k \in kinds
         THEN <<cur>> \o SplitBefore(Tail(text), kinds, <<Head(text)>>)
         ELSE SplitBefore(Tail(text), kinds, Append(cur, Head(text)))

----------------------------------------------------------------------------
(* app/services/chunker.py *)

MAX_CHUNK_CHARS == 4000

\* the IGNORE_PATTERNS of the form <literal>$
IGNORE_SUFFIXES ==
    {".lock", ".min.js", ".min.css", "package-lock.json", "yarn.lock",
     "poetry.lock", ".pyc", ".pem", ".png", ".jpg", ".jpeg", ".gif", ".svg",
     ".pdf", "trigger.txt", ".txt"}

\* re.search(r"migrations/.*\.py$", filepath)
MatchesMigrations(filepath) ==
    /\ EndsWith(filepath, ".py")
    /\ \E i \in 1..(Len(filepath) - 13) :
           SubSeq(filepath, i, i + 10) = "migrations/"

NeverSkip(filepath) == FALSE

should_skip_file(filepath) ==
    \/ \E t \in IGNORE_SUFFIXES : EndsWith(filepath, t)
    \/ MatchesMigrations(filepath)
    \/ Contains(filepath, "__pycache__/")

\* re.search(r"diff --git a/(.+?) b/", file_diff): the first match, if any
HeaderMatch(file_diff) ==
    SelectIdx(file_diff, LAMBDA t : t.k = "git", 1)

RECURSIVE KeepFileDiffs(_)
\* the loop of _split_diff_by_file over the pieces of the split
KeepFileDiffs(file_diffs) ==
    IF file_diffs = <<>> THEN <<>>
    ELSE LET file_diff == Head(file_diffs)
             match     == HeaderMatch(file_diff)
             rest      == KeepFileDiffs(Tail(file_diffs))
         IN  IF Strip(file_diff) = <<>> THEN rest
             ELSE IF match = <<>> THEN rest
             ELSE IF should_skip_file(file_diff[match[1]].p) THEN rest
             ELSE <<[filepath |-> file_diff[match[1]].p,
                     file_diff |-> file_diff]>> \o rest

split_diff_by_file(d) ==
    KeepFileDiffs(SplitBefore(Strip(d), {"git", "lit"}, <<>>))

RECURSIVE PackHunks(_, _, _)
\* the loop of _split_large_file_diff and the final append
PackHunks(hunks, header, current_chunk) ==
    IF hunks = <<>>
    THEN IF Strip(current_chunk) # <<>> THEN <<current_chunk>> ELSE <<>>
    ELSE LET hunk == Head(hunks)
         IN  IF TextLen(current_chunk) + TextLen(hunk) > MAX_CHUNK_CHARS
             THEN (IF Strip(current_chunk) # <<>> THEN <<current_chunk>> ELSE <<>>)
                  \o PackHunks(Tail(hunks), header, header \o hunk)
             ELSE PackHunks(Tail(hunks), header, current_chunk \o hunk)

split_large_file_diff(filepath, file_diff) ==
    LET hunks  == SplitBefore(file_diff, {"at"}, <<>>)
        header == hunks[1]
    IN  PackHunks(Tail(hunks), header, header)

Unit(filepath, i, content) ==
    [chunk_id |-> <<filepath, i>>, file |-> filepath,
     content |-> content, size |-> TextLen(content)]

\* the body of chunk_diff's loop for one (filepath, file_diff)
UnitsOfFile(fd) ==
    IF TextLen(fd.file_diff) <= MAX_CHUNK_CHARS
    THEN <<Unit(fd.filepath, 0, fd.file_diff)>>
    ELSE LET sub_chunks == split_large_file_diff(fd.filepath, fd.file_diff)
         IN  [i \in 1..Len(sub_chunks) |-> Unit(fd.filepath, i - 1, sub_chunks[i])]

chunk_diff(d) ==
    LET file_diffs == split_diff_by_file(d)
    IN  Flatten([i \in 1..Len(file_diffs) |-> UnitsOfFile(file_diffs[i])])

----------------------------------------------------------------------------
(* app/services/planner.py *)

SECURITY_EXTENSIONS ==
    {".py", ".js", ".ts", ".go", ".java", ".rb", ".php", ".env", ".yaml",
     ".yml", ".json", ".toml"}
PERFORMANCE_EXTENSIONS == {".py", ".js", ".ts", ".go", ".java", ".rb", ".sql"}
TESTS_EXTENSIONS == {".py", ".js", ".ts", ".go", ".java", ".rb"}
TEST_FILE_PATTERNS == {"test_", "_test", "/tests/", "/test/", "spec."}

\* the keys of plan_agents' plan, in insertion order
AGENTS == <<"security", "code_quality", "performance", "tests">>
AgentSet == {AGENTS[i] : i \in 1..Len(AGENTS)}

\* Python: c.lower(), for the letters the modelled paths use
LowerChar(c) ==
    CASE c = "P" -> "p" [] c = "Y" -> "y" [] c = "N" -> "n" [] c = "G" -> "g"
      [] c = "J" -> "j" [] c = "S" -> "s" [] c = "E" -> "e" [] c = "R" -> "r"
      [] c = "F" -> "f" [] c = "T" -> "t" [] OTHER -> c

RECURSIVE Lower(_)
Lower(s) ==
    IF Len(s) = 0 THEN ""
    ELSE LowerChar(SubSeq(s, 1, 1)) \o Lower(SubSeq(s, 2, Len(s)))

get_extension(filepath) ==
    IF Contains(filepath, ".")
    THEN LET dots == {i \in 1..Len(filepath) : SubSeq(filepath, i, i) = "."}
             last == CHOOSE i \in dots : \A j \in dots : j <= i
         IN  "." \o Lower(SubSeq(filepath, last + 1, Len(filepath)))
    ELSE ""

\* _is_test_file that looks for the test directories only
is_test_file_by_directory(filepath) ==
    \E p \in {"/tests/", "/test/"} : Contains(filepath, p)

is_test_file(filepath) ==
    \E p \in TEST_FILE_PATTERNS : Contains(filepath, p)

\* the four tests of plan_agents' loop body for one chunk
Routes(agent, filepath) ==
    LET ext     == get_extension(filepath)
        is_test == is_test_file(filepath)
    IN  CASE agent = "code_quality" ->
                 ext \in SECURITY_EXTENSIONS \/ ext \in PERFORMANCE_EXTENSIONS
          [] agent = "security"    -> ext \in SECURITY_EXTENSIONS
          [] agent = "performance" -> ext \in PERFORMANCE_EXTENSIONS /\ ~is_test
          [] agent = "tests"       -> ext \in TESTS_EXTENSIONS /\ ~is_test

\* plan_agents(chunks): agent -> the chunks routed to it, in chunk order
plan_agents(cs) ==
    [a \in AgentSet |->
        LET idx == SelectIdx(cs, LAMBDA c : Routes(a, c.file), 1)
        IN  [j \in 1..Len(idx) |-> cs[idx[j]]]]

\* the parameters plan_agents declares (def plan_agents(chunks))
PlanAgentsParams == {"chunks"}

----------------------------------------------------------------------------
(* app/services/review_agent.py: _run_agent and _aggregate *)

MAX_TOTAL_ISSUES == 10

\* One element of a result's "issues" list.  isdict = FALSE is an element
\* that is valid JSON but no object (a string, a number): it has no .get.
\* severity "missing" is an object without the "severity" key.
Issue(sev, title, file, line) ==
    [isdict |-> TRUE, severity |-> sev, title |-> title, file |-> file, line |-> line]
NonDictIssue ==
    [isdict |-> FALSE, severity |-> "missing", title |-> "", file |-> "", line |-> 0]

\* The backend's answer to one call:
\*   json_object      a JSON object {"agent": agent, "issues": issues}
\*   transport_error  client.chat.completions.create raises (also a timeout)
\*   non_json         json.loads raises
\*   json_non_object  valid JSON that is no object: result.get raises
Response(kind, agent, issues) == [kind |-> kind, agent |-> agent, issues |-> issues]

\* _run_agent: the parsed object, or the except branch's empty result
run_agent(agent_name, r) ==
    IF r.kind = "json_object"
    THEN [agent |-> r.agent, issues |-> r.issues]
    ELSE [agent |-> agent_name, issues |-> <<>>]

risk_order(sev) ==
    CASE sev = "low" -> 0 [] sev = "medium" -> 1 [] sev = "high" -> 2 [] OTHER -> 0

severity_order(sev) ==
    CASE sev = "high" -> 0 [] sev = "medium" -> 1 [] sev = "low" -> 2 [] OTHER -> 2

\* issue.get("severity", "low")
SeverityOrLow(issue) ==
    IF issue.severity = "missing" THEN "low" ELSE issue.severity

RECURSIVE FoldRisk(_, _)
\* the max_risk updates of _aggregate's first loop
FoldRisk(issues, max_risk) ==
    IF issues = <<>> THEN max_risk
    ELSE LET risk == SeverityOrLow(Head(issues))
         IN  FoldRisk(Tail(issues),
                      IF risk_order(risk) > risk_order(max_risk)
                      THEN risk ELSE max_risk)

DedupKey(issue) == <<issue.title, issue.file>>

DedupNone(issues, seen) == issues

RECURSIVE Dedup(_, _)
\* the seen/deduped loop of _aggregate
Dedup(issues, seen) ==
    IF issues = <<>> THEN <<>>
    ELSE IF DedupKey(Head(issues)) \in seen
         THEN Dedup(Tail(issues), seen)
         ELSE <<Head(issues)>>
              \o Dedup(Tail(issues), seen \cup {DedupKey(Head(issues))})

SubSeqAt(s, idx) == [j \in 1..Len(idx) |-> s[idx[j]]]

\* a sort by severity that puts findings of equal severity in reverse order
SortTiesReversed(issues) ==
    LET Rank(i) == severity_order(SeverityOrLow(i))
        Rev(q)  == [j \in 1..Len(q) |-> q[Len(q) + 1 - j]]
    IN  Rev(SubSeqAt(issues, SelectIdx(issues, LAMBDA i : Rank(i) = 0, 1)))
        \o Rev(SubSeqAt(issues, SelectIdx(issues, LAMBDA i : Rank(i) = 1, 1)))
        \o Rev(SubSeqAt(issues, SelectIdx(issues, LAMBDA i : Rank(i) = 2, 1)))

\* deduped.sort(key=...): list.sort is stable
SortBySeverity(issues) ==
    LET Rank(i) == severity_order(SeverityOrLow(i))
    IN  SubSeqAt(issues, SelectIdx(issues, LAMBDA i : Rank(i) = 0, 1))
        \o SubSeqAt(issues, SelectIdx(issues, LAMBDA i : Rank(i) = 1, 1))
        \o SubSeqAt(issues, SelectIdx(issues, LAMBDA i : Rank(i) = 2, 1))

\* Python: s[:m], for any integer m
SlicePrefix(s, m) ==
    LET stop == IF m >= 0 THEN (IF m < Len(s) THEN m ELSE Len(s))
                ELSE (IF Len(s) + m > 0 THEN Len(s) + m ELSE 0)
    IN  SubSeq(s, 1, stop)

\* the flattening of _aggregate's first loop
AllIssues(rs) == Flatten([i \in 1..Len(rs) |-> rs[i].issues])

\* issue.get on an element that is no object raises AttributeError
AggregateRaises(rs) ==
    \E i \in 1..Len(AllIssues(rs)) : ~AllIssues(rs)[i].isdict

AgentCount(rs, agent) ==
    SumSeq([i \in 1..Len(rs) |->
               IF rs[i].agent = agent THEN Len(rs[i].issues) ELSE 0])

SUMMARY_LABELS ==
    [security |-> "security issue(s)", code_quality |-> "code quality issue(s)",
     performance |-> "performance issue(s)", tests |-> "test coverage gap(s)"]

NO_ISSUES_SUMMARY == <<<<0, "No significant issues found.">>>>
NO_CHANGES_SUMMARY == <<<<0, "No reviewable code changes found.">>>>

\* "Found " + ", ".join(summary_parts) + ".", as the parts <<count, label>>
Summary(rs) ==
    LET idx   == SelectIdx(AGENTS, LAMBDA a : AgentCount(rs, a) # 0, 1)
        parts == [j \in 1..Len(idx) |->
                     <<AgentCount(rs, AGENTS[idx[j]]), SUMMARY_LABELS[AGENTS[idx[j]]]>>]
    IN  IF parts # <<>> THEN parts ELSE NO_ISSUES_SUMMARY

Checklist(issues) ==
    LET idx == SelectIdx(issues, LAMBDA i : i.severity \in {"high", "medium"}, 1)
    IN  [j \in 1..Len(idx) |-> "Fix: " \o issues[idx[j]].title]

\* _aggregate with the risk taken from the retained issues
aggregate_risk_of_retained(rs, chunks_count, m) ==
    LET deduped == SlicePrefix(SortBySeverity(Dedup(AllIssues(rs), {})), m)
    IN  [summary |-> Summary(rs),
         risk |-> FoldRisk(deduped, "low"),
         issues |-> deduped,
         checklist |-> Checklist(deduped),
         chunks_count |-> chunks_count]

\* _aggregate(all_results, chunks_count, max_issues), when it does not raise
aggregate(rs, chunks_count, m) ==
    LET deduped == SlicePrefix(SortBySeverity(Dedup(AllIssues(rs), {})), m)
    IN  [summary |-> Summary(rs),
         risk |-> FoldRisk(AllIssues(rs), "low"),
         issues |-> deduped,
         checklist |-> Checklist(deduped),
         chunks_count |-> chunks_count]

\* the fixed result of review_diff's two early returns
EmptyResult(chunks_count) ==
    [summary |-> NO_CHANGES_SUMMARY, risk |-> "low", issues |-> <<>>,
     checklist |-> <<>>, chunks_count |-> chunks_count]

\* no value: before a return, or after a raise
NoResult ==
    [summary |-> <<>>, risk |-> "unknown", issues |-> <<>>,
     checklist |-> <<>>, chunks_count |-> 0]

----------------------------------------------------------------------------
(* app/api/config_routes.py: what set_config lets into the stored config *)

VALID_AGENTS == {"security", "code_quality", "performance", "tests"}
VALID_SEVERITIES == {"low", "medium", "high"}

\* set_config(body): TRUE when the update reaches upsert_repo_config.
\* keys are the fields of the body that are not None.
set_config_accepts(updates) ==
    /\ updates.keys # {}
    /\ "agents" \in updates.keys => updates.agents \subseteq VALID_AGENTS
    /\ "min_severity" \in updates.keys => updates.min_severity \in VALID_SEVERITIES

----------------------------------------------------------------------------
(* Inputs *)

MaxFiles == 2       \* file sections per diff
MaxExecFiles == 2   \* file sections per diff in the execute stage
MaxTasks == 6       \* (agent, chunk) tasks in the execute stage
MaxFindings == 3    \* findings handed to _aggregate

\* One hunk "@@ -a,b +c,d @@ <body>": range is the length of " -a,b +c,d "
Hunk(range, body) == [range |-> range, body |-> body]
HunkText(h) == <<At, Txt(h.range), At>> \o h.body

\* One file section: "diff --git a/<p> b/" <rest of the header lines> <hunks>
Section(path, hunks) == [path |-> path, hdr |-> 80, hunks |-> hunks]
HeaderText(f) == <<Git(f.path), Txt(f.hdr)>>
HunksText(f) == Flatten([i \in 1..Len(f.hunks) |-> HunkText(f.hunks[i])])
SectionText(f) == HeaderText(f) \o HunksText(f)

\* The diff text of the sections, ending in a newline
RenderDiff(fs) == Flatten([i \in 1..Len(fs) |-> SectionText(fs[i])]) \o <<Ws(1)>>

SmallHunks == <<Hunk(13, <<Txt(500)>>)>>

HunkLists ==
    { <<>>,                                           \* rename only
      SmallHunks,
      <<Hunk(13, <<Txt(5000)>>)>>,                    \* one hunk over the bound
      <<Hunk(13, <<Txt(2000)>>), Hunk(13, <<Txt(2500)>>)>>,
      <<Hunk(13, <<Txt(1500)>>), Hunk(13, <<Txt(1500)>>), Hunk(13, <<Txt(1500)>>)>>,
      <<Hunk(13, <<Txt(300), Lit, Txt(200)>>)>> }     \* a line quoting "diff --git "

RichPaths == {"app/x.py", "cfg/app.yaml"}
PlainPaths == {"img/logo.png", "package-lock.json", "tests/test_x.py", "docs/README.md"}

\* A file section whose header lines alone are close to MAX_CHUNK_CHARS
\* (the path is written four times in them: a deep path of about a
\* thousand characters)
LongHeaderSection(path, hunks) == [path |-> path, hdr |-> 3990, hunks |-> hunks]

Sections ==
    {Section(p, hs) : p \in RichPaths, hs \in HunkLists}
    \cup {Section(p, SmallHunks) : p \in PlainPaths}
    \cup {LongHeaderSection("app/x.py", SmallHunks)}

ConfigAgents ==
    {VALID_AGENTS, {"security"}, {"performance", "tests"}}

Config(agents, m) == [agents |-> agents, max_issues |-> m]

Waiting(ts) == [i \in 1..Len(ts) |-> "waiting"]
NoResults(ts) == [i \in 1..Len(ts) |-> [agent |-> "", issues |-> <<>>]]

----------------------------------------------------------------------------
(* The handlers' state (app/services/event_handler.py, app/mcp_server.py) *)

\* app/services/repo_config.py: DEFAULT_CONFIG (agents as a set)
DEFAULT_CONFIG ==
    [agents |-> VALID_AGENTS, max_issues |-> MAX_TOTAL_ISSUES, min_severity |-> "low",
     ignore_patterns |-> {}]

\* no diff requested yet
NoFetch == [kind |-> "none", base |-> "none", head |-> "none"]

\* ok(data) and err(message) of app/mcp_server.py; the data is not kept
ok == [success |-> TRUE, detail |-> ""]
err(message) == [success |-> FALSE, detail |-> message]

\* What a handler gives its caller: an exception, or a value (value is <<>>
\* for None and <<v>> for the dict v); nothing yet while it runs
NoAnswerYet == [raised |-> FALSE, exception |-> "none", value |-> <<>>]

\* The locals of a handler.  pc is "idle" before the first trigger and
\* "ended" once the handler has returned; the other fields keep what the
\* handler last computed.  failed_at is the call an exception came from,
\* answer is what the caller of the handler got.  For an issue_comment
\* event: comment_action and on_pr are the payload's action and whether its
\* issue is a pull request, reaction_status is the status the host answers
\* the reaction requests on the comment with, asked are the reactions
\* requested and reactions those now on the comment.
NoRun ==
    [pc |-> "idle", id |-> 0, origin |-> "", action |-> "", body |-> "",
     command |-> FALSE, mode_label |-> "", review_mode |-> "",
     head_sha |-> "none", fetched |-> NoFetch, have_diff |-> FALSE, diff |-> <<>>,
     config |-> DEFAULT_CONFIG, reviewed |-> FALSE, review |-> NoResult,
     posts |-> <<>>, inline_count |-> 0,
     logged |-> 0, error |-> "none", failed_at |-> "", reactions |-> <<>>,
     answer |-> NoAnswerYet,
     comment_action |-> "", on_pr |-> TRUE, reaction_status |-> 201, asked |-> <<>>,
     before |-> [issue |-> <<>>, inline |-> <<>>]]

\* the repositories with a document in repo_configs, or none
Repos == {"o/r", "o/s"}

\* runs of _run_review in flight at once on the pull request
MaxRacers == 2

\* no request received: the headers X-GitHub-Event and X-Hub-Signature-256
\* ("" is a header that is absent) and the raw body
NoRequest == [event |-> "", signature |-> "", body |-> ""]

\* no answer sent
NoResponse == [status |-> 0, detail |-> ""]

\* the fields of a configuration, and a body or a tool call that gives none
\* of them: keys are the fields given, the others hold a filler
ConfigFields == {"max_issues", "agents", "min_severity", "ignore_patterns"}
NoUpdates ==
    [keys |-> {}, max_issues |-> 0, agents |-> {}, min_severity |-> "",
     ignore_patterns |-> {}]

\* find_one({"repo": repo}) finds nothing
NoDoc ==
    [stored |-> FALSE, keys |-> {}, max_issues |-> 0, agents |-> {},
     min_severity |-> "", ignore_patterns |-> {}]

\* no configuration route or tool called
NoAnswer == [success |-> TRUE, detail |-> ""]
NoCall ==
    [surface |-> "", op |-> "", repo |-> "", updates |-> NoUpdates,
     answer |-> NoAnswer]

\* a run that is not in upsert_pr_comment
NotUpserting == [pc |-> "idle", existing_comment_id |-> 0, body |-> <<>>]

\* no request, no tool call, no stored configuration, no concurrent run
SurfaceIdle ==
    /\ secret = "s3cret"
    /\ request = NoRequest
    /\ response = NoResponse
    /\ config_docs = [r \in Repos |-> NoDoc]
    /\ config_call = NoCall
    /\ upserting = [p \in 1..MaxRacers |-> NotUpserting]

\* no pull request, no record, no handler running
OutsideIdle ==
    /\ issue_comments = <<>>
    /\ inline_comments = <<>>
    /\ review_runs = <<>>
    /\ repo_config = DEFAULT_CONFIG
    /\ run = NoRun
    /\ nruns = 0
    /\ SurfaceIdle

\* review_diff is not running
ReviewIdle ==
    /\ files = <<>>
    /\ diff = <<>>
    /\ cfg = Config(VALID_AGENTS, MAX_TOTAL_ISSUES)
    /\ pc = "idle"
    /\ chunks = <<>>
    /\ tasks = <<>>
    /\ resp = <<>>
    /\ st = <<>>
    /\ results = <<>>
    /\ arrival = <<>>
    /\ all_results = <<>>
    /\ max_issues = MAX_TOTAL_ISSUES
    /\ final = NoResult
    /\ error = "none"
    /\ again = NoResult

review_vars == <<files, diff, cfg, pc, chunks, tasks, resp, st, results, arrival,
                 all_results, max_issues, final, error, again>>

----------------------------------------------------------------------------
(* app/services/event_handler.py: _parse_slash_command *)

\* Python: str.isspace, for the whitespace the modelled bodies use
IsSpace(c) == c \in {" ", "\t", "\n"}

RECURSIVE StrLStrip(_)
StrLStrip(s) ==
    IF Len(s) > 0 /\ IsSpace(SubSeq(s, 1, 1))
    THEN StrLStrip(SubSeq(s, 2, Len(s))) ELSE s

RECURSIVE StrRStrip(_)
StrRStrip(s) ==
    IF Len(s) > 0 /\ IsSpace(SubSeq(s, Len(s), Len(s)))
    THEN StrRStrip(SubSeq(s, 1, Len(s) - 1)) ELSE s

\* Python: s.strip()
StrStrip(s) == StrRStrip(StrLStrip(s))

\* Python: s.startswith(t)
StartsWith(s, t) == Len(s) >= Len(t) /\ SubSeq(s, 1, Len(t)) = t

RECURSIVE SplitWords(_, _)
\* Python: s.split(), word being the word read so far
SplitWords(s, word) ==
    IF Len(s) = 0 THEN (IF word = "" THEN <<>> ELSE <<word>>)
    ELSE IF IsSpace(SubSeq(s, 1, 1))
         THEN (IF word = "" THEN <<>> ELSE <<word>>)
              \o SplitWords(SubSeq(s, 2, Len(s)), "")
         ELSE SplitWords(SubSeq(s, 2, Len(s)), word \o SubSeq(s, 1, 1))

SLASH_PREFIX == "/agent review"

SLASH_AGENT_MAP ==
    [security |-> {"security"}, perf |-> {"performance"},
     performance |-> {"performance"}, quality |-> {"code_quality"},
     tests |-> {"tests"}, test |-> {"tests"}]

\* the value None of an agent list
NoAgents == {}

\* the return value None: not a command
NotACommand == [command |-> FALSE, mode_label |-> "", agents |-> NoAgents]

\* _parse_slash_command with any third word taken as a keyword of the map
parse_slash_command_first_key(body) ==
    LET b == StrStrip(body)
    IN  IF ~StartsWith(b, SLASH_PREFIX) THEN NotACommand
        ELSE IF Len(SplitWords(b, "")) = 2
             THEN [command |-> TRUE, mode_label |-> "full", agents |-> NoAgents]
             ELSE [command |-> TRUE, mode_label |-> Lower(SplitWords(b, "")[3]),
                   agents |-> SLASH_AGENT_MAP.security]

parse_slash_command(body) ==
    LET b     == StrStrip(body)
        parts == SplitWords(b, "")
    IN  IF ~StartsWith(b, SLASH_PREFIX) THEN NotACommand
        ELSE IF Len(parts) = 2
             THEN [command |-> TRUE, mode_label |-> "full", agents |-> NoAgents]
             ELSE LET mode == Lower(parts[3])
                  IN  IF mode \in DOMAIN SLASH_AGENT_MAP
                      THEN [command |-> TRUE, mode_label |-> mode,
                            agents |-> SLASH_AGENT_MAP[mode]]
                      ELSE [command |-> TRUE, mode_label |-> "full",
                            agents |-> NoAgents]

\* if forced_agents: config = {**config, "agents": forced_agents}
override_agents(config, forced_agents) ==
    IF forced_agents # NoAgents THEN [config EXCEPT !.agents = forced_agents]
    ELSE config

----------------------------------------------------------------------------
(* review_diff up to the call of plan_agents *)

Init ==
    /\ files \in SeqsUpTo(Sections, MaxFiles)
    /\ diff \in {RenderDiff(files)} \cup (IF files = <<>> THEN {<<>>} ELSE {})
    /\ cfg \in {Config(a, MAX_TOTAL_ISSUES) : a \in ConfigAgents}
    /\ pc = "start"
    /\ chunks = <<>>
    /\ tasks = <<>>
    /\ resp = <<>>
    /\ st = <<>>
    /\ results = <<>>
    /\ arrival = <<>>
    /\ all_results = <<>>
    /\ max_issues = MAX_TOTAL_ISSUES
    /\ final = NoResult
    /\ error = "none"
    /\ again = NoResult
    /\ OutsideIdle

\* chunks = chunk_diff(diff)
ChunkStep ==
    /\ pc = "start"
    /\ chunks' = chunk_diff(diff)
    /\ pc' = "chunked"
    /\ UNCHANGED outside
    /\ UNCHANGED <<files, diff, cfg, tasks, resp, st, results, arrival,
                   all_results, max_issues, final, error>>

\* if not chunks: return {...}
ReturnNoChunks ==
    /\ pc = "chunked"
    /\ chunks = <<>>
    /\ final' = EmptyResult(0)
    /\ pc' = "done"
    /\ UNCHANGED outside
    /\ UNCHANGED <<files, diff, cfg, chunks, tasks, resp, st, results, arrival,
                   all_results, max_issues, error>>

\* the keyword arguments of the call plan_agents(chunks, active_agents=...)
PlanCallKeywords == {"active_agents"}

\* tasks = [(agent_name, chunk) for agent_name, agent_chunks in plan.items()
\*          for chunk in agent_chunks]
TaskList(plan) ==
    Flatten([a \in 1..Len(AGENTS) |->
                [j \in 1..Len(plan[AGENTS[a]]) |->
                    [agent |-> AGENTS[a], chunk |-> plan[AGENTS[a]][j]]]])

\* plan = plan_agents(chunks, active_agents=cfg.get("agents")): Python binds
\* the arguments first, and raises TypeError for a keyword the function
\* does not declare
PlanStep ==
    /\ pc = "chunked"
    /\ chunks # <<>>
    /\ IF PlanCallKeywords \subseteq PlanAgentsParams
       THEN /\ tasks' = TaskList(plan_agents(chunks))
            /\ st' = Waiting(tasks')
            /\ results' = NoResults(tasks')
            /\ pc' = "planned"
            /\ error' = error
       ELSE /\ error' = "TypeError"
            /\ pc' = "raised"
            /\ UNCHANGED <<tasks, st, results>>
    /\ UNCHANGED outside
    /\ UNCHANGED <<files, diff, cfg, chunks, resp, arrival, all_results,
                   max_issues, final>>

Next == ChunkStep \/ ReturnNoChunks \/ PlanStep

Spec == Init /\ [][Next]_vars

----------------------------------------------------------------------------
(* plan_agents on its own: called with one argument, the chunks *)

MaxUnits == 2

\* the files of the chunks: sources, tests named in each of the five ways,
\* upper case, data, configuration, documents, no extension
PlanPaths ==
    { "app/x.py", "tests/test_x.py", "src/tests/a.py", "src/test/a.go",
      "app/foo_test.go", "web/a.spec.ts", "app/Test_X.PY", "db/q.sql",
      "db/test_q.sql", "cfg/app.yaml", "docs/README.md", "Makefile" }

InitPlan ==
    /\ \E paths \in SeqsUpTo(PlanPaths, MaxUnits) :
          chunks = [k \in 1..Len(paths) |-> Unit(paths[k], k - 1, <<Txt(10)>>)]
    /\ files = <<>>
    /\ diff = <<>>
    /\ cfg = Config(VALID_AGENTS, MAX_TOTAL_ISSUES)
    /\ pc = "chunked"
    /\ tasks = <<>>
    /\ resp = <<>>
    /\ st = <<>>
    /\ results = <<>>
    /\ arrival = <<>>
    /\ all_results = <<>>
    /\ max_issues = MAX_TOTAL_ISSUES
    /\ final = NoResult
    /\ error = "none"
    /\ again = NoResult
    /\ OutsideIdle

\* plan = plan_agents(chunks), and the task list read off the plan
PlanAgentsCall ==
    /\ pc = "chunked"
    /\ tasks' = TaskList(plan_agents(chunks))
    /\ st' = Waiting(tasks')
    /\ results' = NoResults(tasks')
    /\ pc' = "planned"
    /\ UNCHANGED outside
    /\ UNCHANGED <<files, diff, cfg, chunks, resp, arrival, all_results,
                   max_issues, final, error>>

NextPlan == PlanAgentsCall

SpecPlan == InitPlan /\ [][NextPlan]_vars

----------------------------------------------------------------------------
(* review_diff's execute stage (lines 118-137), entered with the task list *)
(* built from plan_agents(chunks): the tasks run under                     *)
(* asyncio.Semaphore(5) and asyncio.gather, then _aggregate.  Under Spec   *)
(* the stage is never entered, because the call of plan_agents raises.     *)

MaxConcurrent == 5

\* the permits held when a permit is not given back at the end of a call
InFlightOrDone(s) == {i \in 1..Len(s) : s[i] \in {"inflight", "done"}}

InFlight(s) == {i \in 1..Len(s) : s[i] = "inflight"}

NoSemaphore(s) == TRUE

\* async with semaphore: a permit is free
SlotFree(s) == Cardinality(InFlight(s)) < MaxConcurrent

GatherInArrivalOrder(res, arr) == [i \in 1..Len(arr) |-> res[arr[i]]]

\* results = await asyncio.gather(*[...]): the values in the order of the
\* awaitables passed in, whatever the order arr in which they completed
Gather(res, arr) == [i \in 1..Len(res) |-> res[i]]

\* if not tasks: return {...}
ReturnNoTasks ==
    /\ pc = "planned"
    /\ tasks = <<>>
    /\ final' = EmptyResult(Len(chunks))
    /\ pc' = "done"
    /\ UNCHANGED outside
    /\ UNCHANGED <<files, diff, cfg, chunks, tasks, resp, st, results, arrival,
                   all_results, max_issues, error>>

\* _limited(i) enters "async with semaphore" and issues its reviewer call.
\* gather starts the coroutines in list order and the semaphore wakes its
\* waiters first-in first-out, so permits are taken in task order.
Acquire(i) ==
    /\ pc = "planned"
    /\ st[i] = "waiting"
    /\ \A j \in 1..(i - 1) : st[j] # "waiting"
    /\ SlotFree(st)
    /\ st' = [st EXCEPT ![i] = "inflight"]
    /\ UNCHANGED outside
    /\ UNCHANGED <<files, diff, cfg, pc, chunks, tasks, resp, results, arrival,
                   all_results, max_issues, final, error>>

\* a task whose call did not give a JSON object is put back in line
limited_retries(r) == IF r.kind = "json_object" THEN "done" ELSE "waiting"

\* _limited returns what _run_agent returns: there is no loop around the
\* call, whatever the answer r was, so the task is done
limited_returns(r) == "done"

\* the reviewer call of task i comes back (an answer or an exception),
\* _run_agent returns and the permit is released
Complete(i) ==
    /\ pc = "planned"
    /\ st[i] = "inflight"
    /\ results' = [results EXCEPT ![i] = run_agent(tasks[i].agent, resp[i])]
    /\ st' = [st EXCEPT ![i] = limited_returns(resp[i])]
    /\ arrival' = Append(arrival, i)
    /\ UNCHANGED outside
    /\ UNCHANGED <<files, diff, cfg, pc, chunks, tasks, resp, all_results,
                   max_issues, final, error>>

\* final = _aggregate(list(results), len(chunks), max_issues=cfg.get(...))
GatherAndAggregate ==
    /\ pc = "planned"
    /\ tasks # <<>>
    /\ \A i \in 1..Len(tasks) : st[i] = "done"
    /\ all_results' = Gather(results, arrival)
    /\ max_issues' = cfg.max_issues
    /\ IF AggregateRaises(all_results')
       THEN /\ error' = "AttributeError"
            /\ pc' = "raised"
            /\ final' = final
       ELSE /\ final' = aggregate(all_results', Len(chunks), max_issues')
            /\ pc' = "done"
            /\ error' = error
    /\ UNCHANGED outside
    /\ UNCHANGED <<files, diff, cfg, chunks, tasks, resp, st, results, arrival>>

\* A well-formed answer of the reviewer of channel agent on unit u.  Security
\* and code_quality report the same (title, file) with different severities.
OkIssues(agent, u) ==
    CASE agent = "security"     -> <<Issue("high", "T1", u.file, 10)>>
      [] agent = "code_quality" -> <<Issue("low", "T1", u.file, 0),
                                     Issue("medium", "T2", u.file, 5)>>
      [] agent = "performance"  -> <<Issue("medium", "T3", u.file, 7)>>
      [] agent = "tests"        -> <<Issue("low", "T4", u.file, 0)>>

OkResponse(t) == Response("json_object", t.agent, OkIssues(t.agent, t.chunk))

\* Every task answers well, or one task (the first or the last) comes back
\* with an exception of the client, with text that is no JSON, with JSON
\* that is no object, or with an object whose "issues" are not objects
ResponseProfiles(ts) ==
    {[i \in 1..Len(ts) |-> OkResponse(ts[i])]}
    \cup {[i \in 1..Len(ts) |-> IF i = f THEN r ELSE OkResponse(ts[i])] :
             f \in {1, Len(ts)} \cap (1..Len(ts)),
             r \in {Response("transport_error", "", <<>>),
                    Response("non_json", "", <<>>),
                    Response("json_non_object", "", <<>>),
                    Response("json_object", "security", <<NonDictIssue>>)}}

ExecPaths == {"app/x.py", "cfg/app.yaml", "docs/README.md"}
ExecSections == {Section(p, SmallHunks) : p \in ExecPaths}

InitExec ==
    /\ files \in SeqsUpTo(ExecSections, MaxExecFiles)
    /\ diff = RenderDiff(files)
    /\ cfg \in {Config(VALID_AGENTS, m) : m \in {2, MAX_TOTAL_ISSUES}}
    /\ chunks = chunk_diff(diff)
    /\ chunks # <<>>
    /\ tasks = TaskList(plan_agents(chunks))
    /\ Len(tasks) <= MaxTasks
    /\ resp \in ResponseProfiles(tasks)
    /\ pc = "planned"
    /\ st = Waiting(tasks)
    /\ results = NoResults(tasks)
    /\ arrival = <<>>
    /\ all_results = <<>>
    /\ max_issues = MAX_TOTAL_ISSUES
    /\ final = NoResult
    /\ error = "none"
    /\ again = NoResult
    /\ OutsideIdle

NextExec ==
    \/ ReturnNoTasks
    \/ \E i \in 1..Len(tasks) : Acquire(i)
    \/ \E i \in 1..Len(tasks) : Complete(i)
    \/ GatherAndAggregate

SpecExec == InitExec /\ [][NextExec]_vars

\* The execute stage entered with no task (a document), with the four tasks
\* of one source file, or with the six tasks of a source file and a
\* configuration file; every
\* reviewer answers well, or the call of the last task ends with the
\* exception the client raises when its timeout expires.
InitExecFair ==
    /\ InitExec
    /\ files \in { <<Section("docs/README.md", SmallHunks)>>,
                   <<Section("app/x.py", SmallHunks)>>,
                   <<Section("app/x.py", SmallHunks),
                     Section("cfg/app.yaml", SmallHunks)>> }
    /\ cfg = Config(VALID_AGENTS, MAX_TOTAL_ISSUES)
    /\ \A i \in 1..Len(tasks) :
          resp[i] = OkResponse(tasks[i])
          \/ (i = Len(tasks) /\ resp[i] = Response("transport_error", "", <<>>))

\* The event loop runs every coroutine that can take a permit, and every
\* reviewer call comes back: with an answer, with an exception, or with the
\* exception of the client's timeout.
SpecExecFair ==
    /\ InitExecFair
    /\ [][NextExec]_vars
    /\ WF_vars(\E i \in 1..Len(tasks) : Acquire(i))
    /\ WF_vars(\E i \in 1..Len(tasks) : Complete(i))

----------------------------------------------------------------------------
(* _aggregate on its own *)

AggItems ==
    { Issue("high", "A", "f1", 10), Issue("low", "A", "f1", 0),
      Issue("medium", "A", "f2", 5), Issue("medium", "B", "f1", 3),
      Issue("missing", "C", "f1", 0), Issue("critical", "D", "f1", 2),
      NonDictIssue }

\* max_issues values a client may send to set_config
MaxIssuesInputs == {-1, 0, 1, 2}

MaxIssuesUpdate(m) ==
    [keys |-> {"max_issues"}, max_issues |-> m, agents |-> {}, min_severity |-> ""]

\* the max_issues a run can be configured with: DEFAULT_CONFIG's, or one
\* that set_config stored
ConfigurableMaxIssues ==
    {MAX_TOTAL_ISSUES} \cup {m \in MaxIssuesInputs : set_config_accepts(MaxIssuesUpdate(m))}

\* Two results in task order: the first cut findings are the security
\* reviewer's, the others the code_quality reviewer's
InitAgg ==
    /\ \E flat \in SeqsUpTo(AggItems, MaxFindings) : \E cut \in 0..Len(flat) :
           all_results =
               << [agent |-> "security", issues |-> SubSeq(flat, 1, cut)],
                  [agent |-> "code_quality", issues |-> SubSeq(flat, cut + 1, Len(flat))] >>
    /\ max_issues \in ConfigurableMaxIssues
    /\ pc = "aggregate"
    /\ files = <<>>
    /\ diff = <<>>
    /\ cfg = Config(VALID_AGENTS, max_issues)
    /\ chunks = <<>>
    /\ tasks = <<>>
    /\ resp = <<>>
    /\ st = <<>>
    /\ results = <<>>
    /\ arrival = <<>>
    /\ final = NoResult
    /\ error = "none"
    /\ again = NoResult
    /\ OutsideIdle

\* _aggregate(all_results, 1, max_issues)
AggregateCall ==
    /\ pc = "aggregate"
    /\ IF AggregateRaises(all_results)
       THEN /\ error' = "AttributeError"
            /\ pc' = "raised"
            /\ final' = final
       ELSE /\ final' = aggregate(all_results, 1, max_issues)
            /\ pc' = "done"
            /\ error' = error
    /\ UNCHANGED outside
    /\ UNCHANGED <<files, diff, cfg, chunks, tasks, resp, st, results, arrival,
                   all_results, max_issues>>

\* _aggregate([{"issues": final["issues"]}], 1, max_issues): the result fed
\* back as one result (r.get("agent", "unknown") names it "unknown")
AggregateAgain ==
    /\ pc = "done"
    /\ again' = aggregate(<<[agent |-> "unknown", issues |-> final.issues]>>,
                          1, max_issues)
    /\ pc' = "again"
    /\ UNCHANGED <<files, diff, cfg, chunks, tasks, resp, st, results, arrival,
                   all_results, max_issues, final, error>>
    /\ UNCHANGED <<issue_comments, inline_comments, review_runs, repo_config,
                   run, nruns, surface>>

NextAgg == AggregateCall \/ AggregateAgain

SpecAgg == InitAgg /\ [][NextAgg]_vars

----------------------------------------------------------------------------
(* The handlers: handle_pull_request_event, handle_issue_comment_event and  *)
(* _run_review of app/services/event_handler.py, review_pr of               *)
(* app/mcp_server.py, with the calls of app/services/github_client.py and   *)
(* app/services/audit_logger.py they make.  One pull request of one         *)
(* repository; a handler runs to its end before the next trigger arrives.   *)

MaxRuns == 2

Shas == {"a1", "b2"}

HANDLED_PR_ACTIONS == {"opened", "synchronize", "reopened"}
INLINE_SEVERITIES == {"high", "medium"}

\* the "action" values of the pull_request events received
PrActions == HANDLED_PR_ACTIONS \cup {"closed"}

\* the diffs the host returns: nothing, a newline, a diff of an ignored
\* file only, a diff of a source file
OrchDiffs ==
    { <<>>, <<Ws(1)>>,
      RenderDiff(<<Section("package-lock.json", SmallHunks)>>),
      RenderDiff(<<Section("app/x.py", SmallHunks)>>) }

\* what goes wrong before the review: nothing, get_installation_token
\* raises, the request of the diff raises (response.raise_for_status)
PreFaults == {"none", "token", "fetch"}

\* the comment bodies of the issue_comment events received
OrchBodies == {"/agent review", "/agent review perf", "lgtm"}

\* the document written with status "success" on both paths
RunRecord_always_success(r, status, e) ==
    [run |-> r.id, action |-> r.action, review_mode |-> r.review_mode,
     status |-> "success", commit_sha |-> r.head_sha,
     diff_size |-> TextLen(r.diff), chunks_count |-> r.review.chunks_count,
     issues_found |-> Len(r.review.issues), risk |-> r.review.risk,
     error |-> e]

\* the document with the counts _run_review starts from (lines 99-101)
RunRecord_initial_counts(r, status, e) ==
    [run |-> r.id, action |-> r.action, review_mode |-> r.review_mode,
     status |-> status, commit_sha |-> r.head_sha,
     diff_size |-> TextLen(r.diff), chunks_count |-> 0,
     issues_found |-> 0, risk |-> "unknown", error |-> e]

\* one document of review_runs, the fields read back or claimed about
RunRecord(r, status, e) ==
    [run |-> r.id, action |-> r.action, review_mode |-> r.review_mode,
     status |-> status, commit_sha |-> r.head_sha,
     diff_size |-> TextLen(r.diff), chunks_count |-> r.review.chunks_count,
     issues_found |-> Len(r.review.issues), risk |-> r.review.risk,
     error |-> e]

\* the commit of the latest record, whatever its status
get_last_recorded_sha(runs) ==
    IF runs = <<>> THEN "none" ELSE runs[Len(runs)].commit_sha

\* get_last_reviewed_sha: find_one({status: "success"}, sort ended_at desc);
\* "none" is None
get_last_reviewed_sha(runs) ==
    LET found == SelectIdx(runs, LAMBDA r : r.status = "success", 1)
    IN  IF found = <<>> THEN "none" ELSE runs[found[Len(found)]].commit_sha

PrDiff == [kind |-> "pr", base |-> "none", head |-> "none"]
CommitDiff(base_sha, head_sha) == [kind |-> "compare", base |-> base_sha, head |-> head_sha]

\* lines 180-191 without the incremental branch
scope_always_full(action, head_sha, last_sha) ==
    [review_mode |-> "full", request |-> PrDiff]

\* lines 180-191 with the test of the action left out
scope_incremental_on_any_action(action, head_sha, last_sha) ==
    IF head_sha # "none" /\ last_sha # "none" /\ last_sha # head_sha
    THEN [review_mode |-> "incremental", request |-> CommitDiff(last_sha, head_sha)]
    ELSE [review_mode |-> "full", request |-> PrDiff]

\* handle_pull_request_event, lines 180-191: the review mode and the diff
\* requested
pr_scope(action, head_sha, last_sha) ==
    IF action = "synchronize" /\ head_sha # "none"
    THEN IF last_sha # "none" /\ last_sha # head_sha
         THEN [review_mode |-> "incremental",
               request |-> CommitDiff(last_sha, head_sha)]
         ELSE [review_mode |-> "full", request |-> PrDiff]
    ELSE [review_mode |-> "full", request |-> PrDiff]

\* "not diff" in place of "not diff.strip()"
is_empty_diff_unstripped(d) == d = <<>>

\* not diff.strip()
is_empty_diff(d) == Strip(d) = <<>>

\* a handler that lets the exception of the run go on to its caller, as
\* _run_review does
handler_reraises(r) ==
    IF r.error # "none"
    THEN [raised |-> TRUE, exception |-> r.error, value |-> <<>>]
    ELSE [raised |-> FALSE, exception |-> "none",
          value |-> IF r.origin = "mcp" THEN <<ok>> ELSE <<>>]

\* the end of a handler whose run ended with r.error: the event handlers
\* log the exception in "except Exception" and return None; review_pr
\* returns ok(...) or, from its "except Exception", err(str(e))
handler_answer(r) ==
    [raised |-> FALSE, exception |-> "none",
     value |-> IF r.origin # "mcp" THEN <<>>
               ELSE IF r.error = "none" THEN <<ok>> ELSE <<err(r.error)>>]

Return(r) == [r EXCEPT !.pc = "ended", !.answer = handler_answer(r)]

\* a handler's locals at its entry
Begin(origin, action) ==
    [NoRun EXCEPT !.id = nruns + 1, !.origin = origin, !.action = action,
                  !.before = [issue |-> issue_comments, inline |-> inline_comments]]

CanReceive == run.pc \in {"idle", "ended"} /\ nruns < MaxRuns

\* handle_pull_request_event up to the call of _run_review
handle_pull_request_event(action, head_sha, fault, d) ==
    /\ CanReceive
    /\ nruns' = nruns + 1
    /\ LET r0    == [Begin("pull_request", action) EXCEPT !.head_sha = head_sha]
           scope == pr_scope(action, head_sha, get_last_reviewed_sha(review_runs))
           r1    == [r0 EXCEPT !.config = repo_config,
                               !.review_mode = scope.review_mode,
                               !.fetched = scope.request]
       IN  run' =
             IF action \notin HANDLED_PR_ACTIONS THEN Return(r0)
             ELSE IF fault = "token"
                  THEN Return([r0 EXCEPT !.error = "HTTPStatusError",
                                        !.failed_at = "token"])
             ELSE IF fault = "fetch"
                  THEN Return([r1 EXCEPT !.error = "HTTPStatusError",
                                        !.failed_at = "fetch"])
             ELSE IF is_empty_diff(d) THEN Return([r1 EXCEPT !.have_diff = TRUE, !.diff = d])
             ELSE [r1 EXCEPT !.have_diff = TRUE, !.diff = d, !.pc = "review"]
    /\ UNCHANGED <<issue_comments, inline_comments, review_runs, repo_config>>
    /\ UNCHANGED review_vars

\* a pull_request event is handled; no request of the webhook route is modelled
PullRequestEvent(action, head_sha, fault, d) ==
    /\ handle_pull_request_event(action, head_sha, fault, d)
    /\ UNCHANGED surface

\* the statuses the host answers a reaction request with: created, or
\* refused (the installation may not react, the comment is gone)
ReactionStatuses == {201, 403}

\* github_client.add_reaction: the request is made; a status other than 200
\* and 201 is logged as a warning and nothing is raised
add_reaction(r, reaction) ==
    [r EXCEPT !.asked = Append(@, reaction),
              !.reactions = IF r.reaction_status \in {200, 201}
                            THEN Append(@, reaction) ELSE @]

\* an except block followed by a "finally" that reacts with "rocket"
except_then_rocket(r) == add_reaction(add_reaction(r, "confused"), "rocket")

\* the except block of handle_issue_comment_event with token bound
slash_except(r) == add_reaction(r, "confused")

\* handle_issue_comment_event for a comment created on the pull request, up
\* to the call of _run_review; status is what the host answers the reaction
\* requests on the comment with.  When get_installation_token raises, token
\* is unbound in the except block and no "confused" reaction is requested.
handle_issue_comment_event(body, head_sha, fault, d, status) ==
    /\ CanReceive
    /\ nruns' = nruns + 1
    /\ LET result == parse_slash_command(StrStrip(body))
           r0 == [Begin("issue_comment", "slash_command") EXCEPT
                     !.body = body, !.command = result.command,
                     !.mode_label = result.mode_label,
                     !.comment_action = "created", !.reaction_status = status]
           r1 == [add_reaction(r0, "eyes") EXCEPT
                     !.head_sha = head_sha,
                     !.config = override_agents(repo_config, result.agents),
                     !.review_mode = "slash:" \o result.mode_label,
                     !.fetched = PrDiff]
       IN  run' =
             IF ~result.command THEN Return(r0)
             ELSE IF fault = "token"
                  THEN Return([r0 EXCEPT !.error = "HTTPStatusError",
                                        !.failed_at = "token"])
             ELSE IF fault = "fetch"
                  THEN Return(slash_except([r1 EXCEPT !.error = "HTTPStatusError",
                                                      !.failed_at = "fetch"]))
             ELSE IF is_empty_diff(d) THEN Return([r1 EXCEPT !.have_diff = TRUE, !.diff = d])
             ELSE [r1 EXCEPT !.have_diff = TRUE, !.diff = d, !.pc = "review"]
    /\ UNCHANGED <<issue_comments, inline_comments, review_runs, repo_config>>
    /\ UNCHANGED review_vars

\* an issue_comment event with action "created" on the pull request is handled
IssueCommentEvent(body, head_sha, fault, d) ==
    /\ \E status \in ReactionStatuses :
          handle_issue_comment_event(body, head_sha, fault, d, status)
    /\ UNCHANGED surface

\* handle_issue_comment_event, lines 211-218: an event whose action is not
\* "created", or whose issue is no pull request, is dropped before the
\* comment is read
IssueCommentIgnored(action, on_pr, body) ==
    /\ action # "created" \/ ~on_pr
    /\ CanReceive
    /\ nruns' = nruns + 1
    /\ run' = Return([Begin("issue_comment", "slash_command") EXCEPT
                         !.body = body, !.comment_action = action,
                         !.on_pr = on_pr])
    /\ UNCHANGED <<issue_comments, inline_comments, review_runs, repo_config>>
    /\ UNCHANGED review_vars
    /\ UNCHANGED surface

\* review_pr(repo, pr_number) of app/mcp_server.py, without overrides, up to
\* the call of review_diff
McpReviewPr(head_sha, fault, d) ==
    /\ CanReceive
    /\ nruns' = nruns + 1
    /\ LET r0 == Begin("mcp", "mcp_tool")
           r1 == [r0 EXCEPT !.head_sha = head_sha, !.config = repo_config,
                            !.review_mode = "full", !.fetched = PrDiff]
       IN  run' =
             IF fault = "token"
                  THEN Return([r0 EXCEPT !.error = "HTTPStatusError",
                                        !.failed_at = "token"])
             ELSE IF fault = "fetch"
                  THEN Return([r1 EXCEPT !.error = "HTTPStatusError",
                                        !.failed_at = "fetch"])
             ELSE IF is_empty_diff(d) THEN Return([r1 EXCEPT !.have_diff = TRUE, !.diff = d])
             ELSE [r1 EXCEPT !.have_diff = TRUE, !.diff = d, !.pc = "review"]
    /\ UNCHANGED <<issue_comments, inline_comments, review_runs, repo_config>>
    /\ UNCHANGED review_vars
    /\ UNCHANGED surface

\* review_diff(diff, pr_title, config) as one call, every reviewer answering
\* well: the exception that leaves it, or its return value
ReviewDiff(d, config) ==
    LET cs == chunk_diff(d)
    IN  IF cs = <<>> THEN [error |-> "none", result |-> EmptyResult(0)]
        ELSE IF ~(PlanCallKeywords \subseteq PlanAgentsParams)
        THEN [error |-> "TypeError", result |-> NoResult]
        ELSE LET ts == TaskList(plan_agents(cs))
                 rs == [i \in 1..Len(ts) |-> run_agent(ts[i].agent, OkResponse(ts[i]))]
             IN  IF ts = <<>>
                 THEN [error |-> "none", result |-> EmptyResult(Len(cs))]
                 ELSE [error |-> "none",
                       result |-> aggregate(Gather(rs, <<>>), Len(cs), config.max_issues)]

\* app/services/github_client.py and app/services/review_agent.py
BOT_COMMENT_MARKER == "<!-- agentic-pr-reviewer -->"
INLINE_COMMENT_MARKER == "<!-- agentic-pr-reviewer -->"

\* A comment body is its lines.  format_review_comment: the marker, then the
\* review; format_inline_comment: the marker, then the finding
format_review_comment(review, review_mode) ==
    <<BOT_COMMENT_MARKER, "Agentic PR Reviewer", review.risk, review_mode>>
format_inline_comment(issue) ==
    <<INLINE_COMMENT_MARKER, issue.severity, issue.title>>

\* BOT_COMMENT_MARKER in comment.get("body", "")
HasMarker(body) == \E i \in 1..Len(body) : Contains(body[i], BOT_COMMENT_MARKER)

\* comments written by people
HumanComment == [id |-> 1, body |-> <<"looks good to me">>, run |-> 0]
HumanInline ==
    [id |-> 1, body |-> <<"why this change?">>, run |-> 0,
     issue |-> Issue("low", "", "", 0), min_severity |-> "low"]

\* find_bot_comment that finds nothing
find_no_comment(comments) == 0

\* find_bot_comment: the id of the first comment carrying the marker, 0 for
\* None
find_bot_comment(comments) ==
    LET idx == SelectIdx(comments, LAMBDA c : HasMarker(c.body), 1)
    IN  IF idx = <<>> THEN 0 ELSE comments[idx[1]].id

\* get_bot_inline_comments: the indexes of the comments carrying the marker
get_bot_inline_comments(comments) ==
    SelectIdx(comments, LAMBDA c : HasMarker(c.body), 1)

sev_order(sev) ==
    CASE sev = "low" -> 0 [] sev = "medium" -> 1 [] sev = "high" -> 2 [] OTHER -> 0

\* _post_inline_comments' filter without the test of the line
inline_issues_any_line(issues, min_severity) ==
    SubSeqAt(issues,
             SelectIdx(issues,
                       LAMBDA i : /\ i.severity \in INLINE_SEVERITIES
                                  /\ sev_order(SeverityOrLow(i)) >= sev_order(min_severity),
                       1))

\* _post_inline_comments, lines 63-70: the findings to post
inline_issues(issues, min_severity) ==
    SubSeqAt(issues,
             SelectIdx(issues,
                       LAMBDA i : /\ i.severity \in INLINE_SEVERITIES
                                  /\ sev_order(SeverityOrLow(i)) >= sev_order(min_severity)
                                  /\ i.line > 0,
                       1))

\* An exception leaves the review: _run_review's except block writes a
\* "failed" record and re-raises, the handler logs it (the slash command
\* also reacts with "confused"); review_pr returns err(str(e)) and writes
\* no record.
Failed(r, e) ==
    IF r.origin = "mcp"
    THEN /\ run' = Return([r EXCEPT !.error = e, !.failed_at = r.pc])
         /\ review_runs' = review_runs
    ELSE /\ LET r2 == [r EXCEPT !.error = e, !.failed_at = r.pc, !.logged = @ + 1]
            IN  run' = Return(IF r.origin = "issue_comment"
                              THEN slash_except(r2) ELSE r2)
         /\ review_runs' = Append(review_runs, RunRecord(r, "failed", e))

\* review = await review_diff(diff, pr_title, config=config)
ReviewStep ==
    /\ run.pc = "review"
    /\ LET out == ReviewDiff(run.diff, run.config)
           r   == [run EXCEPT !.reviewed = TRUE]
       IN  IF out.error = "none"
           THEN /\ run' = [r EXCEPT !.review = out.result, !.pc = "clear"]
                /\ review_runs' = review_runs
           ELSE Failed(r, out.error)
    /\ UNCHANGED <<issue_comments, inline_comments, repo_config, nruns>>
    /\ UNCHANGED review_vars
    /\ UNCHANGED surface

\* _clear_old_inline_comments: the request of the list may raise; a delete
\* that the host does not answer with 204 is logged and the comment stays
ClearStep ==
    /\ run.pc = "clear"
    /\ \/ /\ Failed(run, "HTTPStatusError")
          /\ inline_comments' = inline_comments
       \/ \E refused \in SUBSET {inline_comments[get_bot_inline_comments(inline_comments)[k]].id :
                                   k \in 1..Len(get_bot_inline_comments(inline_comments))} :
             /\ inline_comments' =
                    SubSeqAt(inline_comments,
                             SelectIdx(inline_comments,
                                       LAMBDA c : ~HasMarker(c.body) \/ c.id \in refused, 1))
             /\ run' = [run EXCEPT !.pc = "post"]
             /\ review_runs' = review_runs
    /\ UNCHANGED <<issue_comments, repo_config, nruns>>
    /\ UNCHANGED review_vars
    /\ UNCHANGED surface

\* the count of the posts attempted, in place of the posts that succeeded
posted_attempted(post_results) == Len(post_results)

\* posted = sum(1 for r in results if r is not None); 0 is None
posted(post_results) ==
    Cardinality({k \in 1..Len(post_results) : post_results[k] # 0})

\* _post_inline_comments: each post is attempted on its own (_post_one); one
\* that the host answers with 422, or that raises, returns None and posts
\* nothing; the others return the id of the comment they created
PostStep ==
    /\ run.pc = "post"
    /\ LET todo == inline_issues(run.review.issues, run.config.min_severity)
       IN  \E accepted \in SUBSET (1..Len(todo)) :
             LET post_results == [k \in 1..Len(todo) |->
                                     IF k \in accepted THEN 10 * run.id + k ELSE 0]
             IN  /\ inline_comments' =
                        inline_comments \o
                        SubSeqAt([k \in 1..Len(todo) |->
                                     [id |-> post_results[k],
                                      body |-> format_inline_comment(todo[k]),
                                      run |-> run.id, issue |-> todo[k],
                                      min_severity |-> run.config.min_severity]],
                                 SelectIdx(post_results, LAMBDA r : r # 0, 1))
                 /\ run' = [run EXCEPT !.pc = "upsert", !.posts = post_results,
                                       !.inline_count = posted(post_results)]
    /\ UNCHANGED <<issue_comments, review_runs, repo_config, nruns>>
    /\ UNCHANGED review_vars
    /\ UNCHANGED surface

\* upsert_pr_comment: update the comment find_bot_comment returns, or post a
\* new one; any of the requests may raise
UpsertStep ==
    /\ run.pc = "upsert"
    /\ LET body == format_review_comment(run.review, run.review_mode)
           existing_comment_id == find_bot_comment(issue_comments)
       IN  \/ /\ Failed(run, "HTTPStatusError")
              /\ issue_comments' = issue_comments
           \/ /\ issue_comments' =
                     IF existing_comment_id # 0
                     THEN [k \in 1..Len(issue_comments) |->
                              IF issue_comments[k].id = existing_comment_id
                              THEN [issue_comments[k] EXCEPT !.body = body,
                                                             !.run = run.id]
                              ELSE issue_comments[k]]
                     ELSE Append(issue_comments,
                                 [id |-> 10 * run.id, body |-> body, run |-> run.id])
              /\ run' = [run EXCEPT !.pc = "log"]
              /\ review_runs' = review_runs
    /\ UNCHANGED <<inline_comments, repo_config, nruns>>
    /\ UNCHANGED review_vars
    /\ UNCHANGED surface

\* log_review_run(status="success") and the handler's return; when the
\* insert raises, the except block is entered
LogStep ==
    /\ run.pc = "log"
    /\ \/ Failed(run, "PyMongoError")
       \/ /\ review_runs' = Append(review_runs, RunRecord(run, "success", "none"))
          /\ LET r2 == [run EXCEPT !.logged = @ + 1]
             IN  run' = Return(IF run.origin = "issue_comment"
                               THEN add_reaction(r2, "rocket") ELSE r2)
    /\ UNCHANGED <<issue_comments, inline_comments, repo_config, nruns>>
    /\ UNCHANGED review_vars
    /\ UNCHANGED surface

\* the triggers with what the host answers: an error of the token request,
\* an error of the diff request, or a diff
Answers == {<<"token", <<>>>>, <<"fetch", <<>>>>} \cup {<<"none", d>> : d \in OrchDiffs}

InitOrch ==
    /\ ReviewIdle
    /\ issue_comments = <<HumanComment>>
    /\ inline_comments = <<HumanInline>>
    /\ review_runs = <<>>
    /\ repo_config = DEFAULT_CONFIG
    /\ run = NoRun
    /\ nruns = 0
    /\ SurfaceIdle

NextOrch ==
    \/ \E action \in PrActions, head_sha \in Shas, a \in Answers :
          PullRequestEvent(action, head_sha, a[1], a[2])
    \/ \E body \in OrchBodies, head_sha \in Shas, a \in Answers :
          IssueCommentEvent(body, head_sha, a[1], a[2])
    \/ \E head_sha \in Shas, a \in Answers : McpReviewPr(head_sha, a[1], a[2])
    \/ ReviewStep
    \/ ClearStep
    \/ PostStep
    \/ UpsertStep
    \/ LogStep

SpecOrch == InitOrch /\ [][NextOrch]_vars

----------------------------------------------------------------------------
(* handle_issue_comment_event on its own: comments of any body, under any   *)
(* stored configuration                                                     *)

SlashBodies ==
    { "/agent review", "/agent review perf", "/agent review security",
      "/agent review performance", "/agent review quality",
      "/agent review tests", "/agent review test", "/agent review PERF",
      "  /agent review tests\n", "/agent review security now",
      "/agent review banana", "/agent reviewer", "/agent  review",
      "please /agent review", "lgtm", "" }

StoredConfigs ==
    {[agents |-> a, max_issues |-> MAX_TOTAL_ISSUES, min_severity |-> m,
      ignore_patterns |-> {}] :
        a \in ConfigAgents, m \in VALID_SEVERITIES}

InitSlash ==
    /\ ReviewIdle
    /\ issue_comments = <<>>
    /\ inline_comments = <<>>
    /\ review_runs = <<>>
    /\ repo_config \in StoredConfigs
    /\ run = NoRun
    /\ nruns = 0
    /\ SurfaceIdle

NextSlash ==
    \E body \in SlashBodies, fault \in PreFaults,
       d \in {<<>>, RenderDiff(<<Section("app/x.py", SmallHunks)>>)} :
        IssueCommentEvent(body, "a1", fault, d)

SpecSlash == InitSlash /\ [][NextSlash]_vars

----------------------------------------------------------------------------
(* _run_review's publication (lines 105-127), entered with a review that    *)
(* review_diff returned: old inline comments cleared, new ones posted, the  *)
(* summary comment upserted, the record written.  Under SpecOrch a review   *)
(* never holds a finding, because review_diff raises for every diff with a  *)
(* reviewed file.                                                           *)

PubItems ==
    << Issue("high", "A", "app/x.py", 10), Issue("high", "B", "app/x.py", 0),
       Issue("medium", "C", "app/x.py", 5), Issue("low", "D", "app/x.py", 3),
       Issue("critical", "E", "app/x.py", 8) >>

\* the findings of the reviews: none, one, two, all
PubFindings ==
    { <<>>, SubSeq(PubItems, 1, 1), SubSeq(PubItems, 3, 4), PubItems }

PubReviews ==
    {aggregate(<<[agent |-> "security", issues |-> f]>>, 1, MAX_TOTAL_ISSUES) :
        f \in PubFindings}

\* _run_review, lines 97-108, for a pull request opened at head_sha "a1"
EnterPublish(review) ==
    /\ CanReceive
    /\ nruns' = nruns + 1
    /\ run' = [Begin("pull_request", "opened") EXCEPT
                  !.head_sha = "a1", !.config = repo_config,
                  !.review_mode = "full", !.fetched = PrDiff,
                  !.have_diff = TRUE,
                  !.diff = RenderDiff(<<Section("app/x.py", SmallHunks)>>),
                  !.reviewed = TRUE, !.review = review, !.pc = "clear"]
    /\ UNCHANGED <<issue_comments, inline_comments, review_runs, repo_config>>
    /\ UNCHANGED review_vars
    /\ UNCHANGED surface

InitPub ==
    /\ ReviewIdle
    /\ issue_comments = <<HumanComment>>
    /\ inline_comments = <<HumanInline>>
    /\ review_runs = <<>>
    /\ repo_config \in {c \in StoredConfigs : c.agents = VALID_AGENTS}
    /\ run = NoRun
    /\ nruns = 0
    /\ SurfaceIdle

NextPub ==
    \/ \E review \in PubReviews : EnterPublish(review)
    \/ ClearStep
    \/ PostStep
    \/ UpsertStep
    \/ LogStep

SpecPub == InitPub /\ [][NextPub]_vars

----------------------------------------------------------------------------
(* _run_review as a whole (lines 97-138): called by                         *)
(* handle_pull_request_event with the diff of an opened pull request, or    *)
(* followed from the return of review_diff with a review that holds         *)
(* findings                                                                 *)

\* the diffs _run_review is called with: of an ignored file, of a source file
RunDiffs ==
    { RenderDiff(<<Section("package-lock.json", SmallHunks)>>),
      RenderDiff(<<Section("app/x.py", SmallHunks)>>) }

NextRun ==
    \/ \E d \in RunDiffs : PullRequestEvent("opened", "a1", "none", d)
    \/ \E review \in PubReviews : EnterPublish(review)
    \/ ReviewStep
    \/ ClearStep
    \/ PostStep
    \/ UpsertStep
    \/ LogStep

SpecRun == InitPub /\ [][NextRun]_vars

----------------------------------------------------------------------------
(* upsert_pr_comment called by runs that are in flight at once: github_webhook *)
(* awaits its handler on the server's event loop, so a second request is      *)
(* served while the first waits for an answer of the host, and the two        *)
(* requests of upsert_pr_comment (find_bot_comment, then update_pr_comment or *)
(* post_pr_comment) of one run interleave with those of the other.            *)

\* the review modes of the runs in flight: a pull_request event, a
\* synchronize with a reviewed commit, a slash command
RaceModes == {"full", "incremental", "slash:full"}

\* the summary comment an earlier run left
EarlierSummary ==
    [id |-> 5, body |-> format_review_comment(EmptyResult(0), "full"), run |-> 0]

\* existing_comment_id = await find_bot_comment(repo, pr_number, token)
UpsertFind(p) ==
    /\ upserting[p].pc = "find"
    /\ upserting' = [upserting EXCEPT
                        ![p].existing_comment_id = find_bot_comment(issue_comments),
                        ![p].pc = "write"]
    /\ UNCHANGED <<issue_comments, inline_comments, review_runs, repo_config,
                   run, nruns, secret, request, response, config_docs,
                   config_call>>
    /\ UNCHANGED review_vars

\* if existing_comment_id: update_pr_comment(...) else: post_pr_comment(...)
UpsertWrite(p) ==
    /\ upserting[p].pc = "write"
    /\ issue_comments' =
           IF upserting[p].existing_comment_id # 0
           THEN [k \in 1..Len(issue_comments) |->
                    IF issue_comments[k].id = upserting[p].existing_comment_id
                    THEN [issue_comments[k] EXCEPT !.body = upserting[p].body,
                                                   !.run = p]
                    ELSE issue_comments[k]]
           ELSE Append(issue_comments,
                       [id |-> 10 * p, body |-> upserting[p].body, run |-> p])
    /\ upserting' = [upserting EXCEPT ![p].pc = "done"]
    /\ UNCHANGED <<inline_comments, review_runs, repo_config,
                   run, nruns, secret, request, response, config_docs,
                   config_call>>
    /\ UNCHANGED review_vars

\* every run in flight has its summary formatted and calls upsert_pr_comment
InitRace ==
    /\ ReviewIdle
    /\ issue_comments \in {<<HumanComment>>, <<HumanComment, EarlierSummary>>}
    /\ inline_comments = <<>>
    /\ review_runs = <<>>
    /\ repo_config = DEFAULT_CONFIG
    /\ run = NoRun
    /\ nruns = 0
    /\ secret = "s3cret"
    /\ request = NoRequest
    /\ response = NoResponse
    /\ config_docs = [r \in Repos |-> NoDoc]
    /\ config_call = NoCall
    /\ upserting \in
          [1..MaxRacers ->
              {[pc |-> "find", existing_comment_id |-> 0,
                body |-> format_review_comment(EmptyResult(0), mode)] :
                  mode \in RaceModes}]

NextRace ==
    \/ \E p \in 1..MaxRacers : UpsertFind(p)
    \/ \E p \in 1..MaxRacers : UpsertWrite(p)

SpecRace == InitRace /\ [][NextRace]_vars

----------------------------------------------------------------------------
(* _clear_old_inline_comments and _post_inline_comments called by runs that *)
(* are in flight at once on one pull request: the list request, the         *)
(* deletes and the posts of one run interleave with those of the other.     *)
(* Every request is answered well.                                          *)

\* the inline comment an earlier run left
EarlierInline ==
    [id |-> 5, body |-> format_inline_comment(PubItems[1]), run |-> 0,
     issue |-> PubItems[1], min_severity |-> "low"]

\* the findings of the runs in flight
RaceFindings == PubFindings \ {<<>>}

\* existing = await get_bot_inline_comments(...); if not existing: return
ClearList(p) ==
    /\ upserting[p].pc = "list"
    /\ LET existing == {inline_comments[k].id :
                           k \in {get_bot_inline_comments(inline_comments)[j] :
                                     j \in 1..Len(get_bot_inline_comments(inline_comments))}}
       IN  upserting' = [upserting EXCEPT
                            ![p].existing = existing,
                            ![p].pc = IF existing = {} THEN "post" ELSE "delete"]
    /\ UNCHANGED <<issue_comments, inline_comments, review_runs, repo_config,
                   run, nruns, secret, request, response, config_docs,
                   config_call>>
    /\ UNCHANGED review_vars

\* await asyncio.gather(*[delete_inline_comment(...) for c in existing]): a
\* comment that is gone already is answered 404, which is only logged
ClearDelete(p) ==
    /\ upserting[p].pc = "delete"
    /\ inline_comments' =
           SubSeqAt(inline_comments,
                    SelectIdx(inline_comments,
                              LAMBDA c : c.id \notin upserting[p].existing, 1))
    /\ upserting' = [upserting EXCEPT ![p].pc = "post"]
    /\ UNCHANGED <<issue_comments, review_runs, repo_config,
                   run, nruns, secret, request, response, config_docs,
                   config_call>>
    /\ UNCHANGED review_vars

\* _post_inline_comments(..., issues, token, min_severity="low")
PostInline(p) ==
    /\ upserting[p].pc = "post"
    /\ LET todo == inline_issues(upserting[p].issues, "low")
       IN  inline_comments' =
               inline_comments \o
               [k \in 1..Len(todo) |->
                   [id |-> 10 * p + k, body |-> format_inline_comment(todo[k]),
                    run |-> p, issue |-> todo[k], min_severity |-> "low"]]
    /\ upserting' = [upserting EXCEPT ![p].pc = "done"]
    /\ UNCHANGED <<issue_comments, review_runs, repo_config,
                   run, nruns, secret, request, response, config_docs,
                   config_call>>
    /\ UNCHANGED review_vars

\* every run in flight has its review and calls _clear_old_inline_comments
InitInlineRace ==
    /\ ReviewIdle
    /\ issue_comments = <<HumanComment>>
    /\ inline_comments \in {<<HumanInline>>, <<HumanInline, EarlierInline>>}
    /\ review_runs = <<>>
    /\ repo_config = DEFAULT_CONFIG
    /\ run = NoRun
    /\ nruns = 0
    /\ secret = "s3cret"
    /\ request = NoRequest
    /\ response = NoResponse
    /\ config_docs = [r \in Repos |-> NoDoc]
    /\ config_call = NoCall
    /\ upserting \in
          [1..MaxRacers -> {[pc |-> "list", existing |-> {}, issues |-> f] :
                               f \in RaceFindings}]

NextInlineRace ==
    \/ \E p \in 1..MaxRacers : ClearList(p)
    \/ \E p \in 1..MaxRacers : ClearDelete(p)
    \/ \E p \in 1..MaxRacers : PostInline(p)

SpecInlineRace == InitInlineRace /\ [][NextInlineRace]_vars

----------------------------------------------------------------------------
(* app/api/webhooks.py and app/core/security.py: POST /webhooks/github      *)

\* hmac.new(key, msg, sha256).hexdigest(): the digest is kept as the pair it
\* was computed from, so two digests are equal exactly when key and message
\* are (HMAC-SHA256 without collisions)
hmac_hexdigest(key, msg) == "hmac-sha256<" \o key \o ">(" \o msg \o ")"

\* s.split(sep, 1)
SplitOnce(s, sep) ==
    LET at == {i \in 1..Len(s) : SubSeq(s, i, i) = sep}
    IN  IF at = {} THEN <<s>>
        ELSE LET i == CHOOSE i \in at : \A j \in at : i <= j
             IN  <<SubSeq(s, 1, i - 1), SubSeq(s, i + 1, Len(s))>>

\* the value of a call that returns, and of one that raises
Returned == [raised |-> "none", message |-> ""]
Raised(exception, message) == [raised |-> exception, message |-> message]

\* str.isascii(), for the characters the modelled headers use
IsAscii(s) == \A i \in 1..Len(s) : SubSeq(s, i, i) # "é"

\* verify_github_signature without the comparison of the digests
verify_algorithm_only(payload, signature) ==
    IF signature = "" THEN Raised("ValueError", "Missing GitHub signature header")
    ELSE IF secret = ""
    THEN Raised("ValueError", "GITHUB_WEBHOOK_SECRET is not configured")
    ELSE LET parts == SplitOnce(signature, "=")
         IN  IF Len(parts) # 2
             THEN Raised("ValueError", "Malformed signature header")
             ELSE IF parts[1] # "sha256"
             THEN Raised("ValueError", "Unsupported signature algorithm")
             ELSE Returned

\* verify_github_signature(payload, signature): the exception it raises, or
\* its return.  hmac.compare_digest raises TypeError for a str with a
\* character outside ASCII.
verify_github_signature(payload, signature) ==
    IF signature = "" THEN Raised("ValueError", "Missing GitHub signature header")
    ELSE IF secret = ""
    THEN Raised("ValueError", "GITHUB_WEBHOOK_SECRET is not configured")
    ELSE LET parts == SplitOnce(signature, "=")
         IN  IF Len(parts) # 2
             THEN Raised("ValueError", "Malformed signature header")
             ELSE IF parts[1] # "sha256"
             THEN Raised("ValueError", "Unsupported signature algorithm")
             ELSE IF ~IsAscii(parts[2])
             THEN Raised("TypeError", "comparing strings with non-ASCII characters is not supported")
             ELSE IF hmac_hexdigest(secret, payload) # parts[2]
             THEN Raised("ValueError", "Signature mismatch")
             ELSE Returned

\* the raw bodies received: a pull_request event, an issue_comment event on
\* the pull request, a body that is no JSON
PrOpenedBody ==
    "{\"action\": \"opened\", \"pull_request\": {\"head\": {\"sha\": \"a1\"}}}"
CommentCreatedBody ==
    "{\"action\": \"created\", \"issue\": {\"pull_request\": {}}, \"comment\": {\"body\": \"/agent review\"}}"
TruncatedBody == "{\"action\": \"opened\", "
RawBodies == {PrOpenedBody, CommentCreatedBody, TruncatedBody}

\* await request.json(), for the bodies received: the fields the handlers
\* read; valid is FALSE when the parse raises
request_json(body) ==
    CASE body = PrOpenedBody ->
            [valid |-> TRUE, action |-> "opened", head_sha |-> "a1", comment |-> ""]
      [] body = CommentCreatedBody ->
            [valid |-> TRUE, action |-> "created", head_sha |-> "none",
             comment |-> "/agent review"]
      [] OTHER ->
            [valid |-> FALSE, action |-> "", head_sha |-> "none", comment |-> ""]

\* the X-GitHub-Event headers received
EventTypes == {"ping", "pull_request", "issue_comment", "push"}

\* the X-Hub-Signature-256 headers received with a body: absent, the
\* sender's with the right secret, with another secret, of another body,
\* with another algorithm, without "sha256=", with nothing after it, with a
\* character outside ASCII
SignatureHeaders(body) ==
    { "",
      "sha256=" \o hmac_hexdigest("s3cret", body),
      "sha256=" \o hmac_hexdigest("guess", body),
      "sha256=" \o hmac_hexdigest("s3cret", TruncatedBody),
      "sha1=" \o hmac_hexdigest("s3cret", body),
      hmac_hexdigest("s3cret", body),
      "sha256=",
      "sha256=é" }

\* github_webhook(request, x_github_event, x_hub_signature_256) up to the
\* call of _run_review in the handler it dispatches to.  Only ValueError is
\* caught around verify_github_signature; another exception leaves the route
\* and the server answers 500.  Both handlers catch every exception, so the
\* answer once the handler has returned is "ok".
github_webhook(event, signature, body, fault, d) ==
    /\ CanReceive
    /\ request' = [event |-> event, signature |-> signature, body |-> body]
    /\ LET verified == verify_github_signature(body, signature)
           payload == request_json(body)
           NotDispatched ==
               /\ UNCHANGED <<run, nruns, issue_comments, inline_comments,
                              review_runs, repo_config>>
               /\ UNCHANGED review_vars
       IN  IF event = "ping"
           THEN /\ response' = [status |-> 200, detail |-> "pong"]
                /\ NotDispatched
           ELSE IF verified.raised = "ValueError"
           THEN /\ response' = [status |-> 401, detail |-> verified.message]
                /\ NotDispatched
           ELSE IF verified.raised # "none"
           THEN /\ response' = [status |-> 500, detail |-> "Internal Server Error"]
                /\ NotDispatched
           ELSE IF ~payload.valid
           THEN /\ response' = [status |-> 400, detail |-> "Invalid JSON payload"]
                /\ NotDispatched
           ELSE /\ response' = [status |-> 200, detail |-> "ok"]
                /\ IF event = "pull_request"
                   THEN handle_pull_request_event(payload.action, payload.head_sha,
                                                  fault, d)
                   ELSE IF event = "issue_comment" /\ payload.action = "created"
                   THEN handle_issue_comment_event(payload.comment, "a1", fault, d, 201)
                   ELSE NotDispatched
    /\ UNCHANGED <<secret, config_docs, config_call, upserting>>

\* what the host answers to the handler dispatched: the diff of an ignored
\* file, the diff of a source file
HookAnswers ==
    { <<"none", RenderDiff(<<Section("package-lock.json", SmallHunks)>>)>>,
      <<"none", RenderDiff(<<Section("app/x.py", SmallHunks)>>)>> }

InitHook ==
    /\ ReviewIdle
    /\ issue_comments = <<HumanComment>>
    /\ inline_comments = <<HumanInline>>
    /\ review_runs = <<>>
    /\ repo_config = DEFAULT_CONFIG
    /\ run = NoRun
    /\ nruns = 0
    /\ secret \in {"", "s3cret"}
    /\ request = NoRequest
    /\ response = NoResponse
    /\ config_docs = [r \in Repos |-> NoDoc]
    /\ config_call = NoCall
    /\ upserting = [p \in 1..MaxRacers |-> NotUpserting]

NextHook ==
    \/ \E event \in EventTypes, body \in RawBodies, a \in HookAnswers :
         \E signature \in SignatureHeaders(body) :
            github_webhook(event, signature, body, a[1], a[2])
    \/ ReviewStep
    \/ ClearStep
    \/ PostStep
    \/ UpsertStep
    \/ LogStep

SpecHook == InitHook /\ [][NextHook]_vars

----------------------------------------------------------------------------
(* The configuration surfaces: app/services/repo_config.py, the routes of   *)
(* app/api/config_routes.py, the tools of app/mcp_server.py.  A list of     *)
(* agents or of patterns is kept as the set of its elements.                *)

\* the repository the handlers review
PrRepo == "o/r"

\* get_repo_config(repo): DEFAULT_CONFIG overlaid with the document's
\* fields; the "repo" key of the result is left out
get_repo_config(docs, repo) ==
    LET doc == docs[repo]
    IN  IF doc.stored
        THEN [f \in ConfigFields |-> IF f \in doc.keys THEN doc[f] ELSE DEFAULT_CONFIG[f]]
        ELSE DEFAULT_CONFIG

\* upsert_repo_config that writes the document anew from the update
upsert_replacing(docs, repo, updates) ==
    [docs EXCEPT ![repo] =
        [f \in ConfigFields \cup {"stored", "keys"} |->
            IF f = "stored" THEN TRUE
            ELSE IF f = "keys" THEN updates.keys \cap ConfigFields
            ELSE IF f \in updates.keys THEN updates[f] ELSE NoDoc[f]]]

\* upsert_repo_config(repo, updates): update_one({"repo": repo},
\* {"$set": {"repo": repo, **clean}}, upsert=True), the collection after it
upsert_repo_config(docs, repo, updates) ==
    LET allowed_keys == {"max_issues", "agents", "min_severity", "ignore_patterns"}
        clean == updates.keys \cap allowed_keys
        doc   == docs[repo]
    IN  [docs EXCEPT ![repo] =
            [f \in ConfigFields \cup {"stored", "keys"} |->
                IF f = "stored" THEN TRUE
                ELSE IF f = "keys" THEN doc.keys \cup clean
                ELSE IF f \in clean THEN updates[f] ELSE doc[f]]]

\* delete_repo_config(repo): delete_one({"repo": repo}), the collection
\* after it
delete_repo_config(docs, repo) == [docs EXCEPT ![repo] = NoDoc]

\* _validate_repo(repo): TRUE when it returns None
validate_repo(repo) ==
    /\ ~StartsWith(repo, "http")
    /\ Cardinality({i \in 1..Len(repo) : SubSeq(repo, i, i) = "/"}) = 1

\* set_repo_config_tool, lines 750-772: its answer before the write
set_repo_config_tool_answer(repo, updates) ==
    IF ~validate_repo(repo) THEN err("Invalid repo format")
    ELSE IF "max_issues" \in updates.keys /\ updates.max_issues < 1
    THEN err("max_issues must be >= 1")
    ELSE IF "agents" \in updates.keys /\ ~(updates.agents \subseteq VALID_AGENTS)
    THEN err("Invalid agents")
    ELSE IF "agents" \in updates.keys /\ updates.agents = {}
    THEN err("agents list cannot be empty")
    ELSE IF "min_severity" \in updates.keys
            /\ updates.min_severity \notin {"low", "medium", "high"}
    THEN err("min_severity must be 'low', 'medium', or 'high'")
    ELSE IF updates.keys = {} THEN err("No fields provided")
    ELSE ok

\* what a call leaves behind: the collection, the configuration the
\* handlers load, the call with its answer
Called(surface_name, op, repo, updates, answer, docs) ==
    /\ config_call' = [surface |-> surface_name, op |-> op, repo |-> repo,
                       updates |-> updates, answer |-> answer]
    /\ config_docs' = docs
    /\ repo_config' = get_repo_config(docs, PrRepo)
    /\ UNCHANGED <<issue_comments, inline_comments, review_runs, run, nruns,
                   secret, request, response, upserting>>
    /\ UNCHANGED review_vars

\* POST /config/{owner}/{repo_name}: set_config
set_config(repo, updates) ==
    IF set_config_accepts(updates)
    THEN Called("http", "set", repo, updates, ok,
                upsert_repo_config(config_docs, repo, updates))
    ELSE Called("http", "set", repo, updates, err("400"), config_docs)

\* DELETE /config/{owner}/{repo_name}: reset_config
reset_config(repo) ==
    Called("http", "reset", repo, NoUpdates, ok,
           delete_repo_config(config_docs, repo))

\* set_repo_config_tool(repo, max_issues, agents, min_severity,
\* ignore_patterns); an argument that is None is a key not in updates
set_repo_config_tool(repo, updates) ==
    LET answer == set_repo_config_tool_answer(repo, updates)
    IN  IF answer.success
        THEN Called("mcp", "set", repo, updates, ok,
                    upsert_repo_config(config_docs, repo, updates))
        ELSE Called("mcp", "set", repo, updates, answer, config_docs)

\* reset_repo_config_tool(repo)
reset_repo_config_tool(repo) ==
    IF validate_repo(repo)
    THEN Called("mcp", "reset", repo, NoUpdates, ok,
                delete_repo_config(config_docs, repo))
    ELSE Called("mcp", "reset", repo, NoUpdates, err("Invalid repo format"),
                config_docs)

\* an update that gives the fields of given, with the values of values
Update(given, values) ==
    [f \in ConfigFields \cup {"keys"} |->
        IF f = "keys" THEN given
        ELSE IF f \in given THEN values[f] ELSE NoUpdates[f]]

\* the updates sent: one field with a value in range, one field with a
\* value out of range, two fields, none
ConfigUpdates ==
    LET in_range == [max_issues |-> 5, agents |-> {"security"},
                     min_severity |-> "high", ignore_patterns |-> {"docs/"}]
        no_issues == [in_range EXCEPT !.max_issues = 0]
        no_agents == [in_range EXCEPT !.agents = {}]
        bad_agent == [in_range EXCEPT !.agents = {"security", "banana"}]
        bad_severity == [in_range EXCEPT !.min_severity = "critical"]
    IN  {Update({f}, in_range) : f \in ConfigFields}
        \cup { Update({"max_issues"}, no_issues), Update({"agents"}, no_agents),
               Update({"agents"}, bad_agent),
               Update({"min_severity"}, bad_severity),
               Update({"max_issues", "min_severity"}, in_range),
               Update({"max_issues", "agents"}, no_issues),
               Update({}, in_range) }

\* the updates sent for the second repository
OtherRepoUpdates ==
    {u \in ConfigUpdates : u.keys \in {{"max_issues"}, {"agents"}} /\ u.max_issues \in {0, 5}
                           /\ u.agents \in {{}, {"security"}} /\ "banana" \notin u.agents}

\* the repositories the tools are called with: a full URL among them
ToolRepos == Repos \cup {"https://github.com/o/r"}

InitCfg ==
    /\ ReviewIdle
    /\ OutsideIdle

NextCfg ==
    \/ \E updates \in ConfigUpdates : set_config(PrRepo, updates)
    \/ \E repo \in Repos \ {PrRepo}, updates \in OtherRepoUpdates : set_config(repo, updates)
    \/ \E repo \in Repos : reset_config(repo)
    \/ \E repo \in ToolRepos, updates \in ConfigUpdates :
          /\ repo \in Repos \ {PrRepo} => updates \in OtherRepoUpdates
          /\ set_repo_config_tool(repo, updates)
    \/ \E repo \in ToolRepos : reset_repo_config_tool(repo)

SpecCfg == InitCfg /\ [][NextCfg]_vars

----------------------------------------------------------------------------
(* Claims about chunk_diff and about review_diff up to plan_agents (Spec) *)

Chunked == pc # "start"
Ended == pc \in {"done", "raised"}

\* the sections of the diff whose path is p, in order
SectionsOf(p) == SubSeqAt(files, SelectIdx(files, LAMBDA f : f.path = p, 1))
\* the units of the result whose file is p, in order
UnitsOf(p) == SubSeqAt(chunks, SelectIdx(chunks, LAMBDA u : u.file = p, 1))

\* a unit's content without its file header: what follows the first "@@"
RECURSIVE AfterHeader(_)
AfterHeader(text) ==
    IF text = <<>> \/ Head(text).k = "at" THEN text ELSE AfterHeader(Tail(text))

\* C1: every unit returned by chunk_diff has size <= MAX_CHUNK_CHARS, except
\* a unit that is a file header plus exactly one hunk of that file.
C1_SizeBoundOrHeaderPlusOneHunk ==
    Chunked =>
        \A i \in 1..Len(chunks) :
            \/ chunks[i].size <= MAX_CHUNK_CHARS
            \/ \E j \in 1..Len(files) :
                   /\ files[j].path = chunks[i].file
                   /\ \E h \in 1..Len(files[j].hunks) :
                          chunks[i].content =
                              HeaderText(files[j]) \o HunkText(files[j].hunks[h])

\* C2: for every non-ignored file, the units of that file, in output order
\* and without their file header, are the hunks of that file, each exactly
\* once and in order; an ignored file has no unit.
C2_CompletePartition ==
    Chunked =>
        \A j \in 1..Len(files) :
            LET p == files[j].path
            IN  IF should_skip_file(p)
                THEN UnitsOf(p) = <<>>
                ELSE Flatten([i \in 1..Len(UnitsOf(p)) |->
                                 AfterHeader(UnitsOf(p)[i].content)])
                     = Flatten([i \in 1..Len(SectionsOf(p)) |->
                                   HunksText(SectionsOf(p)[i])])

\* the paths of the model that IGNORE_PATTERNS names: *.png, package-lock.json
IgnoredExamples == {"img/logo.png", "package-lock.json"}
OnlyIgnoredFiles == \A j \in 1..Len(files) : files[j].path \in IgnoredExamples

\* C3: for a diff that is empty, whitespace-only or touches only ignored
\* files, chunk_diff returns no unit and review_diff returns the fixed empty
\* result (no issues, risk low), issues no reviewer call and does not raise.
C3_NothingToReview ==
    (Chunked /\ OnlyIgnoredFiles) =>
        /\ chunks = <<>>
        /\ tasks = <<>> /\ arrival = <<>>
        /\ pc # "raised" /\ error = "none"
        /\ pc = "done" => /\ final = EmptyResult(0)
                          /\ final.issues = <<>> /\ final.risk = "low"

C3_Witness ==
    /\ pc = "done"
    /\ files # <<>>
    /\ \E j \in 1..Len(files) : files[j].path = "img/logo.png"
    /\ \E j \in 1..Len(files) : files[j].path = "package-lock.json"
    /\ OnlyIgnoredFiles
    /\ final = EmptyResult(0)

\* C4: when a run ends, the tasks handed to the reviewers are exactly the
\* pairs (channel, unit) with the unit routed to the channel by the extension
\* heuristic and the channel in the run's enabled agent set.
C4_TasksAreEligibleAndEnabled ==
    Ended =>
        \A i \in 1..Len(chunks) : \A a \in AgentSet :
            (\E t \in 1..Len(tasks) : tasks[t] = [agent |-> a, chunk |-> chunks[i]])
            <=> (Routes(a, chunks[i].file) /\ a \in cfg.agents)

----------------------------------------------------------------------------
(* Claims about the execute stage (SpecExec) *)

\* a reviewer answer that is a failure of the task: an exception, text that
\* is no JSON, or JSON of the wrong shape
FailedResponse(r) ==
    \/ r.kind # "json_object"
    \/ \E k \in 1..Len(r.issues) : ~r.issues[k].isdict

\* C5: when the reviewer call of one task fails, that task yields an empty
\* findings list, every sibling task contributes its findings, and
\* review_diff does not raise.
C5_TaskFailureIsolated ==
    (Ended /\ tasks # <<>>) =>
        /\ pc = "done" /\ error = "none"
        /\ \A i \in 1..Len(tasks) :
               all_results[i].issues =
                   IF FailedResponse(resp[i]) THEN <<>> ELSE resp[i].issues

\* C6: at most MaxConcurrent (5) reviewer calls are in flight at any time;
\* a task beyond that waits until an in-flight call has finished.
C6_BoundedInFlight ==
    /\ Cardinality(InFlight(st)) <= MaxConcurrent
    /\ \A i \in 1..Len(st) :
           st[i] # "waiting" => Len(arrival) >= i - MaxConcurrent

C6_Witness ==
    /\ Cardinality(InFlight(st)) = MaxConcurrent
    /\ \E i \in 1..Len(st) : st[i] = "waiting"

\* what _run_agent returns for each task, in task-submission order
SubmittedResults == [i \in 1..Len(tasks) |-> run_agent(tasks[i].agent, resp[i])]

\* C7: for a fixed task list and fixed answers, the outcome of the run
\* (issues, risk, checklist, summary, or the exception) is the one obtained
\* from the results in task-submission order, whatever the completion order.
C7_CompletionOrderIrrelevant ==
    (Ended /\ tasks # <<>>) =>
        IF AggregateRaises(SubmittedResults)
        THEN pc = "raised"
        ELSE /\ pc = "done"
             /\ final = aggregate(SubmittedResults, Len(chunks), cfg.max_issues)

\* the code_quality task of a file completed before its security task, and
\* the finding kept for their common (title, file) is the security one
C7_Witness ==
    /\ pc = "done"
    /\ \E i, j \in 1..Len(tasks) :
           /\ i < j
           /\ tasks[i].agent = "security" /\ tasks[j].agent = "code_quality"
           /\ tasks[i].chunk.file = tasks[j].chunk.file
           /\ \E a, b \in 1..Len(arrival) : a < b /\ arrival[a] = j /\ arrival[b] = i
           /\ \E k \in 1..Len(final.issues) : final.issues[k] = resp[i].issues[1]

----------------------------------------------------------------------------
(* Claims about _aggregate (SpecAgg) *)

Aggregated == pc = "done"

\* C8: no two retained issues share (title, file), and a retained issue is
\* the first finding with its (title, file) in task-submission order.
C8_DedupKeepsFirst ==
    Aggregated =>
        LET all == AllIssues(all_results)
            out == final.issues
        IN  /\ \A j, k \in 1..Len(out) :
                   j # k => DedupKey(out[j]) # DedupKey(out[k])
            /\ \A j \in 1..Len(out) :
                   \E a \in 1..Len(all) :
                       /\ all[a] = out[j]
                       /\ \A b \in 1..(a - 1) : DedupKey(all[b]) # DedupKey(out[j])

C8_Witness ==
    /\ Aggregated
    /\ all_results[1].issues = <<Issue("low", "A", "f1", 0)>>
    /\ all_results[2].issues = <<Issue("high", "A", "f1", 10)>>
    /\ final.issues = <<Issue("low", "A", "f1", 0)>>

\* C9: the aggregated result holds at most max_issues issues, for every
\* max_issues a run can be configured with.
C9_IssuesWithinMaxIssues ==
    Aggregated => Len(final.issues) <= max_issues

\* the maximum severity, low < medium < high, of a list of findings
MaxSeverity(issues) ==
    IF \E i \in 1..Len(issues) : issues[i].severity = "high" THEN "high"
    ELSE IF \E i \in 1..Len(issues) : issues[i].severity = "medium" THEN "medium"
    ELSE "low"

\* C10: risk is the maximum severity over all findings before truncation,
\* low when there is none; truncation never lowers it.
C10_RiskIsMaxSeverityBeforeTruncation ==
    Aggregated => final.risk = MaxSeverity(AllIssues(all_results))

C10_Witness ==
    /\ Aggregated
    /\ Len(final.issues) < Len(Dedup(AllIssues(all_results), {}))
    /\ final.risk = "high"
    /\ MaxSeverity(final.issues) # "high"

\* C11: risk is the maximum severity of the deduplicated findings (after the
\* (title, file) dedup, before truncation): a finding removed as a duplicate
\* does not influence it.
C11_RiskIsMaxOfDeduplicated ==
    Aggregated => final.risk = MaxSeverity(Dedup(AllIssues(all_results), {}))

\* C12: aggregating the issues of an aggregated result again, as one result
\* with the same max_issues (here any max_issues >= 1), returns the same
\* issues, risk and checklist.
C12_AggregateIdempotent ==
    (pc = "again" /\ max_issues >= 1) =>
        /\ again.issues = final.issues
        /\ again.risk = final.risk
        /\ again.checklist = final.checklist

----------------------------------------------------------------------------
(* Claims about the slash command (SpecSlash) *)

\* the handler has loaded the configuration for the run
ConfigLoaded == run.fetched # NoFetch

C19_Keywords ==
    [security |-> "security", perf |-> "performance",
     performance |-> "performance", quality |-> "code_quality",
     tests |-> "tests", test |-> "tests"]

\* C19: a comment is a review command only if it starts with
\* "/agent review"; the bare command runs with the stored agent list; the
\* command followed by a recognized keyword runs with exactly the mapped
\* channel in place of the stored list; an unrecognized keyword falls back
\* to the stored list and mode "full" without an error.
C19_SlashCommandMapping ==
    run.origin = "issue_comment" =>
        LET b     == StrStrip(run.body)
            words == SplitWords(b, "")
        IN  /\ run.command => StartsWith(b, "/agent review")
            /\ b = "/agent review" =>
                   /\ run.command /\ run.mode_label = "full"
                   /\ ConfigLoaded => run.config.agents = repo_config.agents
            /\ \A k \in DOMAIN C19_Keywords :
                   b = "/agent review " \o k =>
                       /\ run.command
                       /\ ConfigLoaded => run.config.agents = {C19_Keywords[k]}
            /\ (StartsWith(b, "/agent review ") /\ Len(words) >= 3
                    /\ Lower(words[3]) \notin DOMAIN C19_Keywords) =>
                   /\ run.command /\ run.mode_label = "full"
                   /\ ConfigLoaded => run.config.agents = repo_config.agents
                   /\ ConfigLoaded /\ ~is_empty_diff(run.diff) => run.pc = "review"

C19_Witness ==
    /\ run.body = "/agent review perf"
    /\ run.pc = "review"
    /\ run.config.agents = {"performance"}
    /\ repo_config.agents = {"security"}

----------------------------------------------------------------------------
(* Claims about the handlers (SpecOrch) *)

\* the pull_request handler has chosen its scope and no record of this run
\* is written yet: review_runs is what get_last_reviewed_sha read
ScopeChosen ==
    run.origin = "pull_request" /\ run.fetched # NoFetch /\ run.logged = 0

Successes == {i \in 1..Len(review_runs) : review_runs[i].status = "success"}

\* the most recent successful record
LastSuccess == review_runs[CHOOSE i \in Successes : \A j \in Successes : j <= i]

\* the record the handler wrote is this run's, with the run's mode
RecordedWithMode ==
    (run.origin = "pull_request" /\ run.logged = 1) =>
        /\ review_runs[Len(review_runs)].run = run.id
        /\ review_runs[Len(review_runs)].review_mode = run.review_mode

\* C13: on "synchronize", when the most recent successful record has commit
\* A and the new head B differs from A, the diff requested is the comparison
\* of A and B, not the pull request's diff, and the run is recorded with
\* review_mode "incremental".
C13_IncrementalScope ==
    /\ (ScopeChosen /\ run.action = "synchronize" /\ Successes # {}
            /\ LastSuccess.commit_sha # run.head_sha) =>
           /\ run.fetched = CommitDiff(LastSuccess.commit_sha, run.head_sha)
           /\ run.review_mode = "incremental"
    /\ RecordedWithMode

C13_Witness ==
    /\ run.pc = "ended" /\ run.action = "synchronize" /\ run.logged = 1
    /\ run.fetched = CommitDiff("a1", "b2")
    /\ review_runs[Len(review_runs)].review_mode = "incremental"
    /\ review_runs[1].status = "success" /\ review_runs[1].commit_sha = "a1"

\* C14: "opened" and "reopened" are reviewed in full scope whatever the
\* records say, "synchronize" is when no successful record exists; any other
\* action starts no run.
C14_FullScope ==
    /\ (ScopeChosen /\ run.action \in {"opened", "reopened"}) =>
           run.fetched = PrDiff /\ run.review_mode = "full"
    /\ (ScopeChosen /\ run.action = "synchronize" /\ Successes = {}) =>
           run.fetched = PrDiff /\ run.review_mode = "full"
    /\ (run.origin = "pull_request"
            /\ run.action \notin {"opened", "synchronize", "reopened"}) =>
           /\ run.pc = "ended" /\ run.fetched = NoFetch /\ ~run.reviewed
           /\ run.logged = 0
           /\ issue_comments = run.before.issue
           /\ inline_comments = run.before.inline

C14_Witness ==
    /\ ScopeChosen /\ run.action = "reopened" /\ run.pc = "review"
    /\ Successes # {} /\ LastSuccess.commit_sha # run.head_sha
    /\ run.fetched = PrDiff

\* C15: when the diff fetched is empty or whitespace only, the run ends at
\* once: no review, no inline comment deleted or posted, no summary comment
\* created or updated, no error raised or reported.
C15_EmptyDiffEndsRun ==
    (run.origin \in {"pull_request", "issue_comment"} /\ run.have_diff
        /\ Strip(run.diff) = <<>>) =>
        /\ run.pc = "ended"
        /\ ~run.reviewed
        /\ issue_comments = run.before.issue
        /\ inline_comments = run.before.inline
        /\ run.error = "none"
        /\ \A k \in 1..Len(run.reactions) : run.reactions[k] # "confused"

C15_Witness ==
    /\ run.origin = "issue_comment" /\ run.have_diff /\ run.diff = <<Ws(1)>>
    /\ run.pc = "ended"
    /\ \E k \in 1..Len(issue_comments) : HasMarker(issue_comments[k].body)

MarkedSummaries == {k \in 1..Len(issue_comments) : HasMarker(issue_comments[k].body)}

C20_OneRunRecordPerRun ==
    (run.pc = "ended" /\ run.reviewed) =>
        /\ run.logged = 1
        /\ Cardinality({i \in 1..Len(review_runs) : review_runs[i].run = run.id}) = 1

----------------------------------------------------------------------------
(* Claims about the publication (SpecPub) *)

\* the bot-marked inline comments this run posted, and those of earlier runs
MarkedInline == {k \in 1..Len(inline_comments) : HasMarker(inline_comments[k].body)}
PostedByThisRun == {k \in MarkedInline : inline_comments[k].run = run.id}
PostedEarlier == {k \in MarkedInline : inline_comments[k].run # run.id}

\* C17: a run posts no inline comment while a bot-marked inline comment of
\* an earlier run is still on the pull request; after a completed run the
\* bot-marked inline comments are exactly those the run posted.
C17_OldInlineCommentsReplaced ==
    /\ PostedByThisRun # {} => PostedEarlier = {}
    /\ (run.pc = "ended" /\ run.reviewed /\ run.error = "none") => PostedEarlier = {}

C18_Rank(sev) == CASE sev = "low" -> 0 [] sev = "medium" -> 1 [] sev = "high" -> 2

\* C18: every inline comment posted is for a finding of severity medium or
\* high, of severity at least the run's min_severity, with a line above 0.
C18_InlineOnlyForEligible ==
    \A k \in MarkedInline :
        /\ inline_comments[k].issue.severity \in {"medium", "high"}
        /\ C18_Rank(inline_comments[k].issue.severity)
               >= C18_Rank(inline_comments[k].min_severity)
        /\ inline_comments[k].issue.line > 0

C18_Witness ==
    /\ run.pc = "upsert"
    /\ run.config.min_severity = "medium"
    /\ run.review.issues = SubSeq(PubItems, 1, 4) \o SubSeq(PubItems, 5, 5)
    /\ {inline_comments[k].issue.title : k \in PostedByThisRun} = {"A", "C"}

----------------------------------------------------------------------------
(* Claims about failed runs (SpecOrch) *)

\* the records the run that last ran has written
RecordsOfRun == {i \in 1..Len(review_runs) : review_runs[i].run = run.id}

\* C21: a run that aborted because the request of the diff failed, because
\* review_diff raised, or because the publication of the summary comment
\* failed, has written a record with status "failed" that carries the error.
C21_FailureRecorded ==
    (run.pc = "ended" /\ run.failed_at \in {"fetch", "review", "upsert"}) =>
        \E i \in RecordsOfRun :
            /\ review_runs[i].status = "failed"
            /\ review_runs[i].error = run.error

----------------------------------------------------------------------------
(* Claims about _run_review (SpecRun) *)

\* the bot-marked summary comments among comments
MarkedOf(comments) ==
    SubSeqAt(comments, SelectIdx(comments, LAMBDA c : HasMarker(c.body), 1))

RunFailed == run.pc = "ended" /\ run.error # "none"

\* C22: a run that ended in the failed state has posted no inline comment,
\* and the bot-marked summary comments are those that were there when it
\* began, unchanged.
C22_FailedRunPublishedNothing ==
    RunFailed =>
        /\ PostedByThisRun = {}
        /\ MarkedOf(issue_comments) = MarkedOf(run.before.issue)

\* _post_inline_comments has returned
PostsReturned ==
    /\ run.reviewed
    /\ \/ run.pc \in {"upsert", "log"}
       \/ run.pc = "ended" /\ run.failed_at \in {"", "upsert", "log"}

\* the findings of the review that may be posted inline
C28_Eligible ==
    {k \in 1..Len(run.review.issues) :
        /\ run.review.issues[k].severity \in {"medium", "high"}
        /\ C18_Rank(run.review.issues[k].severity) >= C18_Rank(run.config.min_severity)
        /\ run.review.issues[k].line > 0}

C29_FailedRecordCounts ==
    RunFailed =>
        \A i \in RecordsOfRun :
            review_runs[i].status = "failed" =>
                /\ review_runs[i].diff_size = TextLen(run.diff)
                /\ IF run.failed_at = "review"
                   THEN /\ review_runs[i].chunks_count = 0
                        /\ review_runs[i].issues_found = 0
                        /\ review_runs[i].risk = "unknown"
                   ELSE /\ review_runs[i].chunks_count = run.review.chunks_count
                        /\ review_runs[i].issues_found = Len(run.review.issues)
                        /\ review_runs[i].risk = run.review.risk

\* a run in which review_diff raised, then a run that failed at the summary
\* comment with a review of two findings
C29_Witness ==
    /\ RunFailed /\ run.failed_at = "upsert"
    /\ Len(review_runs) = 2
    /\ review_runs[1].status = "failed" /\ review_runs[1].error = "TypeError"
    /\ review_runs[1].risk = "unknown" /\ review_runs[1].diff_size > 0
    /\ review_runs[2].status = "failed" /\ review_runs[2].issues_found = 2
    /\ review_runs[2].chunks_count = 1 /\ review_runs[2].risk = "medium"

----------------------------------------------------------------------------
(* Claims about runs in flight at once (SpecRace) *)

AllUpserted == \A p \in 1..MaxRacers : upserting[p].pc = "done"

\* C23: when the runs that were in flight at once have all completed their
\* upsert, the pull request carries exactly one bot-marked summary comment.
C23_NoUpsertRace ==
    AllUpserted => Cardinality(MarkedSummaries) = 1

----------------------------------------------------------------------------
(* Claims about the webhook route (SpecHook) *)

\* the signature header of rq is the HMAC-SHA256 of its raw body under the
\* configured secret
C24_Verified(rq) ==
    /\ secret # ""
    /\ rq.signature = "sha256=" \o hmac_hexdigest(secret, rq.body)

\* what processing a request touches: the handler's run, the host's
\* comments, the records
C24_Processing == <<run, nruns, issue_comments, inline_comments, review_runs>>

\* C24: a request that is not a ping and whose signature header does not
\* verify against its raw body starts no handler, changes no comment and
\* writes no record, and is refused (answered 401, or 500 when the header
\* cannot be compared); a ping is answered 200 "pong" whatever its signature
\* and is not processed either.
C24_NoProcessingUnlessVerified ==
    [][ /\ (request'.event # "ping" /\ ~C24_Verified(request')) =>
              /\ UNCHANGED C24_Processing
              /\ response'.status \in {401, 500}
        /\ request'.event = "ping" =>
              /\ UNCHANGED C24_Processing
              /\ response' = [status |-> 200, detail |-> "pong"] ]_vars

\* after a verified pull_request event was processed, the same event signed
\* with another secret is refused
C24_Witness ==
    /\ request.event = "pull_request"
    /\ request.body = PrOpenedBody
    /\ request.signature = "sha256=" \o hmac_hexdigest("guess", PrOpenedBody)
    /\ response.status = 401
    /\ nruns = 1 /\ run.pc = "ended" /\ Len(review_runs) = 1

----------------------------------------------------------------------------
(* Claims about the configuration surfaces (SpecCfg) *)

\* C25: the configuration loaded for any repository has a non-empty set of
\* agents, all of them known, a min_severity of low, medium or high, and a
\* max_issues of at least 1.
C25_LoadedConfigValid ==
    \A repo \in Repos :
        LET config == get_repo_config(config_docs, repo)
        IN  /\ config.agents # {}
            /\ config.agents \subseteq {"security", "code_quality", "performance", "tests"}
            /\ config.min_severity \in {"low", "medium", "high"}
            /\ config.max_issues >= 1

\* C26: a configuration update that is accepted changes, in the document of
\* its repository, exactly the fields it gives: each takes the value given,
\* every other field keeps the value (or the absence) it had, and the
\* documents of the other repositories are unchanged.
C26_PartialUpdate ==
    [][ (config_call'.op = "set" /\ config_call'.answer.success) =>
           \A repo \in Repos :
              IF repo = config_call'.repo
              THEN \A f \in {"max_issues", "agents", "min_severity", "ignore_patterns"} :
                      IF f \in config_call'.updates.keys
                      THEN /\ f \in config_docs'[repo].keys
                           /\ config_docs'[repo][f] = config_call'.updates[f]
                      ELSE /\ f \in config_docs'[repo].keys <=> f \in config_docs[repo].keys
                           /\ config_docs'[repo][f] = config_docs[repo][f]
              ELSE config_docs'[repo] = config_docs[repo] ]_vars

\* max_issues alone was set for a repository whose document held agents and
\* min_severity, while the other repository has a document of its own
C26_Witness ==
    /\ config_call.op = "set" /\ config_call.answer.success
    /\ config_call.repo = "o/r"
    /\ config_call.updates.keys = {"max_issues"}
    /\ config_docs["o/r"].keys = {"max_issues", "agents", "min_severity"}
    /\ config_docs["o/r"].agents = {"security"}
    /\ config_docs["o/r"].max_issues = 5
    /\ get_repo_config(config_docs, "o/r").min_severity = "high"
    /\ config_docs["o/s"].stored /\ config_docs["o/s"].keys = {"agents"}

----------------------------------------------------------------------------
(* Claims about plan_agents (SpecPlan) *)

\* chunk i is in channel a's list
C27_Routed(a, i) ==
    \E t \in 1..Len(tasks) : tasks[t] = [agent |-> a, chunk |-> chunks[i]]

C27_LooksLikeTest(path) ==
    \E p \in {"test_", "_test", "/tests/", "/test/", "spec."} : Contains(path, p)

\* C27: in the plan, a unit whose path looks like a test file is in neither
\* the performance nor the tests list, whatever its extension; any other
\* unit is in the performance list exactly when its extension is in the
\* performance set and in the tests list exactly when it is in the tests
\* set; a unit whose extension is in no set is in no list.
C27_TestFilesAndExtensions ==
    pc = "planned" =>
        \A i \in 1..Len(chunks) :
            LET path == chunks[i].file
                ext  == get_extension(path)
            IN  /\ C27_LooksLikeTest(path) =>
                      ~C27_Routed("performance", i) /\ ~C27_Routed("tests", i)
                /\ ~C27_LooksLikeTest(path) =>
                      /\ C27_Routed("performance", i) <=>
                            ext \in {".py", ".js", ".ts", ".go", ".java", ".rb", ".sql"}
                      /\ C27_Routed("tests", i) <=>
                            ext \in {".py", ".js", ".ts", ".go", ".java", ".rb"}
                /\ ext \notin SECURITY_EXTENSIONS \cup PERFORMANCE_EXTENSIONS =>
                      \A a \in AgentSet : ~C27_Routed(a, i)

\* a test file with a source extension next to a source file: the first is
\* reviewed for security and quality only, the second by all four
C27_Witness ==
    /\ pc = "planned"
    /\ Len(chunks) = 2
    /\ chunks[1].file = "app/foo_test.go" /\ chunks[2].file = "app/x.py"
    /\ {a \in AgentSet : C27_Routed(a, 1)} = {"security", "code_quality"}
    /\ {a \in AgentSet : C27_Routed(a, 2)} = AgentSet

----------------------------------------------------------------------------
(* Claims about the execute stage under fairness (SpecExecFair) *)

\* every task has acquired a permit, its call has come back, and gather
\* holds one result per task
AllTasksDone ==
    /\ Len(results) = Len(tasks)
    /\ \A i \in 1..Len(tasks) : st[i] = "done"

\* a task whose call ended with the client's exception (its timeout among
\* them) has the empty findings list as its result
TimedOutIsEmpty ==
    \A i \in 1..Len(tasks) :
        (st[i] = "done" /\ resp[i].kind = "transport_error") =>
            results[i] = [agent |-> tasks[i].agent, issues |-> <<>>]

\* C30: every task eventually gets a permit and the execute stage eventually
\* holds one result for each task, the empty findings list for a task whose
\* call timed out.
C30_ExecuteStageCompletes == <>(AllTasksDone /\ TimedOutIsEmpty)

\* six tasks for five permits, the last call timed out, all done
C30_Witness ==
    /\ Len(tasks) > MaxConcurrent
    /\ AllTasksDone
    /\ resp[Len(tasks)].kind = "transport_error"
    /\ arrival[Len(arrival)] # Len(tasks)
    /\ results[Len(tasks)].issues = <<>>

----------------------------------------------------------------------------
(* Claims about the tasks of the execute stage (SpecExec) *)

\* the (channel, unit) pairs the router produces for the chunks
RoutedPairs ==
    {<<a, i>> \in AgentSet \X (1..Len(chunks)) : Routes(a, chunks[i].file)}

\* the task of the pair <<a, i>>: the positions of tasks that hold it
TasksOfPair(a, i) ==
    {t \in 1..Len(tasks) :
        /\ tasks[t].agent = a
        /\ tasks[t].chunk = chunks[i]
        /\ Cardinality({u \in 1..t : tasks[u].agent = a})
             = Cardinality({j \in 1..i : Routes(a, chunks[j].file)})}

\* the number of reviewer calls of task t that have come back
CallsOf(t) == Cardinality({k \in 1..Len(arrival) : arrival[k] = t})

----------------------------------------------------------------------------
(* Claims about the units of a split file (Spec) *)

\* the text of the hunks a..b of the file section f
HunkRun(f, a, b) == Flatten([i \in 1..(b - a + 1) |-> HunkText(f.hunks[a + i - 1])])

\* the file sections chunk_diff splits: not ignored, longer than the bound,
\* the only section of their path
SplitSections ==
    {j \in 1..Len(files) :
        /\ ~should_skip_file(files[j].path)
        /\ TextLen(SectionText(files[j])) > MAX_CHUNK_CHARS
        /\ \A k \in 1..Len(files) : files[k].path = files[j].path => k = j}

\* C32: a file over the bound is cut at hunk boundaries only: unit k of the
\* file has the id (file, k), is the file header followed by a run of whole
\* consecutive hunks, the runs follow one another from the first hunk to
\* the last, and a run ends only where the next hunk would no longer fit.
C32_SplitAtHunkBoundaries ==
    Chunked =>
        \A j \in SplitSections :
            LET f  == files[j]
                us == UnitsOf(f.path)
            IN  \E e \in [1..Len(us) -> 1..Len(f.hunks)] :
                    /\ Len(us) >= 1
                    /\ e[Len(us)] = Len(f.hunks)
                    /\ \A k \in 1..Len(us) :
                          LET a == IF k = 1 THEN 1 ELSE e[k - 1] + 1
                          IN  /\ a <= e[k]
                              /\ us[k].chunk_id = <<f.path, k - 1>>
                              /\ us[k].content =
                                     HeaderText(f) \o HunkRun(f, a, e[k])
                              /\ k < Len(us) =>
                                     us[k].size
                                       + TextLen(HunkText(f.hunks[e[k] + 1]))
                                     > MAX_CHUNK_CHARS

\* C34: the ids of the units chunk_diff returns are pairwise distinct.
C34_UnitIdsDistinct ==
    Chunked =>
        \A i, j \in 1..Len(chunks) :
            i # j => chunks[i].chunk_id # chunks[j].chunk_id

\* C40: every unit of a file over the bound is the file header followed by
\* at least one whole hunk of the file.
C40_NoHeaderOnlyUnit ==
    Chunked =>
        \A j \in SplitSections :
            LET f  == files[j]
                us == UnitsOf(f.path)
            IN  \A k \in 1..Len(us) :
                    \E h \in 1..Len(f.hunks) :
                        LET lead == HeaderText(f) \o HunkText(f.hunks[h])
                        IN  /\ Len(us[k].content) >= Len(lead)
                            /\ SubSeq(us[k].content, 1, Len(lead)) = lead

----------------------------------------------------------------------------
(* Claims about the order of the retained issues (SpecAgg) *)

\* high before medium before low; a missing or unknown severity counts as low
C33_Rank(issue) ==
    CASE issue.severity = "high" -> 0
      [] issue.severity = "medium" -> 1
      [] OTHER -> 2

\* the position of the finding x in the sequence q that holds it once
C33_Pos(q, x) == CHOOSE i \in 1..Len(q) : q[i] = x

\* x comes before y: higher severity, or equal severity and earlier in the
\* deduplicated task-submission sequence q
C33_Before(q, x, y) ==
    \/ C33_Rank(x) < C33_Rank(y)
    \/ C33_Rank(x) = C33_Rank(y) /\ C33_Pos(q, x) < C33_Pos(q, y)

\* C33: the retained issues are findings of the deduplicated sequence, in
\* severity order with ties in the order of that sequence, and every
\* finding that was cut off comes after every retained one in that order.
C33_SeverityOrderStable ==
    Aggregated =>
        LET q    == Dedup(AllIssues(all_results), {})
            out  == final.issues
            kept == {out[i] : i \in 1..Len(out)}
        IN  /\ \A i \in 1..Len(out) : \E a \in 1..Len(q) : q[a] = out[i]
            /\ \A i, j \in 1..Len(out) : i < j => C33_Before(q, out[i], out[j])
            /\ \A a \in 1..Len(q) :
                   q[a] \notin kept => \A i \in 1..Len(out) : C33_Before(q, out[i], q[a])

\* three findings, the unknown severity and the missing one behind the
\* medium one in submission order kept, the last of them cut off
C33_Witness ==
    /\ Aggregated
    /\ AllIssues(all_results) =
          <<Issue("missing", "C", "f1", 0), Issue("medium", "A", "f2", 5),
            Issue("critical", "D", "f1", 2)>>
    /\ final.issues =
          <<Issue("medium", "A", "f2", 5), Issue("missing", "C", "f1", 0)>>

----------------------------------------------------------------------------
(* Claims about the end of a handler (SpecOrch) *)

\* C35: a handler that has ended has returned to its caller, whatever failed
\* in its run: it did not raise, and review_pr returned a value with
\* success false and the error's text when its run had failed.
C35_NoExceptionEscapes ==
    run.pc = "ended" =>
        /\ ~run.answer.raised
        /\ (run.origin = "mcp" /\ run.error # "none") =>
              /\ Len(run.answer.value) = 1
              /\ ~run.answer.value[1].success
              /\ run.answer.value[1].detail = run.error

\* the second trigger of a sitting was the MCP tool, review_diff raised in
\* it, and the first trigger's run had failed as well
C35_Witness ==
    /\ run.pc = "ended"
    /\ run.origin = "mcp"
    /\ run.failed_at = "review"
    /\ run.error = "TypeError"
    /\ run.answer.value = <<err("TypeError")>>
    /\ \E k \in 1..Len(review_runs) : review_runs[k].status = "failed"

----------------------------------------------------------------------------
(* Pushes to a pull request that was reviewed before: review_runs holds the *)
(* record of a successful review at commit "a1", and "synchronize" events   *)
(* arrive for the later heads "b2" and "c3"                                 *)

LaterHeads == {"b2", "c3"}

\* the record _run_review wrote for the pull request opened at "a1", whose
\* diff held an ignored file only
FirstReviewRecord ==
    RunRecord([NoRun EXCEPT
                  !.action = "opened", !.review_mode = "full", !.head_sha = "a1",
                  !.diff = RenderDiff(<<Section("package-lock.json", SmallHunks)>>),
                  !.review = EmptyResult(0)],
              "success", "none")

InitBase ==
    /\ ReviewIdle
    /\ issue_comments = <<HumanComment>>
    /\ inline_comments = <<HumanInline>>
    /\ review_runs = <<FirstReviewRecord>>
    /\ repo_config = DEFAULT_CONFIG
    /\ run = NoRun
    /\ nruns = 0
    /\ SurfaceIdle

NextBase ==
    \/ \E head_sha \in LaterHeads, a \in Answers :
          PullRequestEvent("synchronize", head_sha, a[1], a[2])
    \/ ReviewStep
    \/ ClearStep
    \/ PostStep
    \/ UpsertStep
    \/ LogStep

SpecBase == InitBase /\ [][NextBase]_vars

\* the records written before the current handler began, in order
PriorRecords ==
    SubSeqAt(review_runs, SelectIdx(review_runs, LAMBDA d : d.run # run.id, 1))

\* the commit of the most recent of the records q with status "success"
LastSuccessCommit(q) ==
    q[CHOOSE i \in 1..Len(q) :
          /\ q[i].status = "success"
          /\ \A j \in (i + 1)..Len(q) : q[j].status # "success"].commit_sha

\* C36: the diff a "synchronize" run requests starts at the commit of the
\* most recent record with status success written before it, whatever runs
\* failed or were skipped since: the comparison from that commit to the new
\* head, or the pull request's diff when the head is that commit.
C36_BaseIsLastSuccess ==
    (run.origin = "pull_request" /\ run.action = "synchronize"
        /\ run.fetched # NoFetch) =>
        /\ \E i \in 1..Len(PriorRecords) : PriorRecords[i].status = "success"
        /\ LET last_sha == LastSuccessCommit(PriorRecords)
           IN  IF last_sha = run.head_sha
               THEN run.fetched = PrDiff
               ELSE run.fetched = CommitDiff(last_sha, run.head_sha)

\* reviewed at a1, the run at b2 failed, and the run at c3 has compared a1
\* with c3 and recorded its success
C36_Witness ==
    /\ Len(review_runs) = 3
    /\ review_runs[2].status = "failed" /\ review_runs[2].commit_sha = "b2"
    /\ run.pc = "ended" /\ run.head_sha = "c3"
    /\ run.fetched = CommitDiff("a1", "c3")
    /\ review_runs[3].status = "success" /\ review_runs[3].commit_sha = "c3"

----------------------------------------------------------------------------
(* Claims about the success record (SpecOrch) *)

\* a record with status "success" is appended by the step
C37_SuccessWritten ==
    /\ Len(review_runs') = Len(review_runs) + 1
    /\ review_runs'[Len(review_runs')].status = "success"

\* the run has cleared, posted and upserted, and the marked summary comment
\* on the pull request is the one this run wrote
C37_Published ==
    /\ run.pc = "log"
    /\ run.reviewed
    /\ \E k \in 1..Len(issue_comments) :
          /\ HasMarker(issue_comments[k].body)
          /\ issue_comments[k].run = run.id
          /\ issue_comments[k].body =
                 format_review_comment(run.review, run.review_mode)

\* C37: a record with status "success" is written only by a run that has
\* gone through the clearing and posting of inline comments and the upsert
\* of its summary without an exception, and whenever such a record exists
\* the pull request carries a bot-marked summary comment.
C37_SuccessOnlyAfterPublication ==
    /\ [][C37_SuccessWritten => C37_Published]_vars
    /\ []((\E k \in 1..Len(review_runs) : review_runs[k].status = "success")
            => \E k \in 1..Len(issue_comments) : HasMarker(issue_comments[k].body))

\* the second run, of the MCP tool, has written its success record after
\* updating the summary comment the first run had created
C37_Witness ==
    /\ run.pc = "ended" /\ run.origin = "mcp" /\ run.id = 2
    /\ Len(review_runs) = 2
    /\ review_runs[2].status = "success" /\ review_runs[2].run = 2
    /\ \E k \in 1..Len(issue_comments) :
          /\ HasMarker(issue_comments[k].body)
          /\ issue_comments[k].id = 10
          /\ issue_comments[k].run = 2

----------------------------------------------------------------------------
(* Claims about inline comments of runs in flight at once (SpecInlineRace) *)

\* the runs whose bot-marked inline comments are on the pull request
C38_RunsWithInline ==
    {inline_comments[k].run :
        k \in {j \in 1..Len(inline_comments) : HasMarker(inline_comments[j].body)}}

\* C38: when the runs in flight have all cleared and posted, the bot-marked
\* inline comments on the pull request are those of one run.
C38_InlineOfOneRun ==
    (\A p \in 1..MaxRacers : upserting[p].pc = "done") =>
        Cardinality(C38_RunsWithInline) <= 1

----------------------------------------------------------------------------
(* issue_comment events of every action, on pull requests and on plain      *)
(* issues, answered by a host that accepts or refuses reactions             *)

CommentActions == {"created", "edited", "deleted"}

InitReact == InitOrch

NextReact ==
    \/ \E body \in OrchBodies, head_sha \in Shas, a \in Answers :
          IssueCommentEvent(body, head_sha, a[1], a[2])
    \/ \E action \in CommentActions, on_pr \in BOOLEAN, body \in OrchBodies :
          IssueCommentIgnored(action, on_pr, body)
    \/ ReviewStep
    \/ ClearStep
    \/ PostStep
    \/ UpsertStep
    \/ LogStep

SpecReact == InitReact /\ [][NextReact]_vars

----------------------------------------------------------------------------
(* Claims about the reactions on a slash command's comment (SpecReact) *)

\* the reaction x is among the reactions q
C39_Has(x, q) == \E k \in 1..Len(q) : q[k] = x

\* the run has written a record with status "success"
C39_SuccessRecorded ==
    \E k \in 1..Len(review_runs) :
        review_runs[k].run = run.id /\ review_runs[k].status = "success"

\* the comment is a recognized command created on a pull request
C39_Recognized ==
    run.command /\ run.comment_action = "created" /\ run.on_pr

\* the diff has been asked for or review work has started
C39_WorkStarted ==
    run.fetched # NoFetch \/ run.have_diff \/ run.reviewed \/ run.pc # "ended"

\* a comment that is no command, is on a plain issue or was not created gets
\* no reaction request and starts no run
C39_IgnoredUntouched ==
    ~C39_Recognized =>
        /\ run.asked = <<>> /\ run.reactions = <<>>
        /\ run.pc = "ended"
        /\ run.fetched = NoFetch /\ ~run.have_diff /\ ~run.reviewed
        /\ run.logged = 0
        /\ \A k \in 1..Len(review_runs) : review_runs[k].run # run.id
        /\ issue_comments = run.before.issue
        /\ inline_comments = run.before.inline

====
